---- MODULE Spec2Model ----
(***************************************************************************)
(* FlightOps MCP: the plan validator and plan executor of client.py and    *)
(* the candidate resolver and data operations of server.py.                *)
(*                                                                         *)
(* Text is a sequence of characters.  A character is a record: c is the    *)
(* character, j is NoJson for an ordinary character.  A character with     *)
(* c = "JSON" stands for the complete text of one JSON value j (a text     *)
(* with no backtick and no surrounding whitespace); the characters "<" and *)
(* ">" are the text before and after the one string literal of the plan    *)
(*   {"plan":[{"tool":"casual_query","arguments":{"answer":"..."}}]}       *)
(* so that <abc> is the text of that plan with answer "abc".               *)
(***************************************************************************)
EXTENDS Integers, Sequences, FiniteSets, TLC

VARIABLES
    store,      \* the documents of the collection, in natural order
    srv,        \* the last server operation and what it returned
    content,    \* the text the planning oracle returned
    planOut,    \* what plan_tools returned for content
    pc,         \* run_query: "start", "loop", "done"
    plan,       \* run_query: the plan being executed
    idx,        \* run_query: number of steps the loop has consumed
    results,    \* run_query: the results list
    calls,      \* every session.call_tool dispatched: <<step, tool, args>>
    summarized, \* whether summarize_results was called
    ret,        \* what run_query returned
    mongo_client, \* server.py: the globals _mongo_client, _db, _col
    constructed,  \* how many times AsyncIOMotorClient was constructed
    reqs          \* the in-flight requests of the server: position and handle held

vars == <<store, srv, content, planOut, pc, plan, idx, results, calls, summarized, ret,
          mongo_client, constructed, reqs>>

\* no server operation has run; run_query has not returned
NoSrv == [op |-> "none"]

NoRet == [kind |-> "none"]

\* _mongo_client = _db = _col = None
NoHandle == [client |-> 0, db |-> 0, col |-> 0]

\* no request is in flight and no client was constructed
NoRequests ==
    /\ mongo_client = NoHandle
    /\ constructed = 0
    /\ reqs = <<>>

ClientIdle ==
    /\ pc = "idle"
    /\ plan = <<>>
    /\ idx = 0
    /\ results = <<>>
    /\ calls = <<>>
    /\ summarized = FALSE
    /\ ret = NoRet

(***************************************************************************)
(* Bounds                                                                  *)
(***************************************************************************)
MaxToks == 4

MaxDocs == 3

MaxSteps == 3

MaxLimit == 2

MaxReqs == 3

(***************************************************************************)
(* Python values                                                           *)
(***************************************************************************)
\* str, int, bool and None as uniform records: s for str, n for the rest
PStr(s) == [ty |-> "str", s |-> s, n |-> 0]

PInt(n) == [ty |-> "int", s |-> <<>>, n |-> n]

PBool(b) == [ty |-> "bool", s |-> <<>>, n |-> IF b THEN 1 ELSE 0]

PNone == [ty |-> "none", s |-> <<>>, n |-> 0]

Digits == <<"0", "1", "2", "3", "4", "5", "6", "7", "8", "9">>

IsDigit(c) == \E d \in 1..10 : Digits[d] = c

DigitVal(c) == (CHOOSE d \in 1..10 : Digits[d] = c) - 1

Upper == <<"J", "S", "O", "N", "U", "K", "W">>

Lower == <<"j", "s", "o", "n", "u", "k", "w">>

\* str.lower() on one character
LowerChar(c) == IF \E i \in 1..Len(Upper) : Upper[i] = c
                THEN Lower[CHOOSE i \in 1..Len(Upper) : Upper[i] = c]
                ELSE c

\* str.lower()
lower(s) == [i \in 1..Len(s) |-> LowerChar(s[i])]

Spaces == {" ", "\n", "\t", "\r"}

\* str.strip(chars): drop the leading and trailing elements that are in D
StripSet(s, D) ==
    LET keep == {i \in 1..Len(s) : s[i] \notin D}
    IN  IF keep = {} THEN <<>>
        ELSE SubSeq(s, CHOOSE i \in keep : \A k \in keep : i <= k,
                       CHOOSE i \in keep : \A k \in keep : i >= k)

\* str.strip() of a str value (a sequence of one-character strings)
strip(s) == StripSet(s, Spaces)

startswith(s, p) == Len(s) >= Len(p) /\ SubSeq(s, 1, Len(p)) = p

RECURSIVE DigitsValue(_)
DigitsValue(s) ==
    IF s = <<>> THEN 0 ELSE 10 * DigitsValue(SubSeq(s, 1, Len(s) - 1)) + DigitVal(s[Len(s)])

\* int(text) once the text is stripped and its sign is split off
IntOfDigits(negative, d) ==
    IF d # <<>> /\ \A i \in 1..Len(d) : IsDigit(d[i])
    THEN [ok |-> TRUE, n |-> IF negative THEN 0 - DigitsValue(d) ELSE DigitsValue(d)]
    ELSE [ok |-> FALSE, n |-> 0]

IntOfStripped(t) ==
    IF t # <<>> /\ t[1] \in {"-", "+"} THEN IntOfDigits(t[1] = "-", Tail(t)) ELSE IntOfDigits(FALSE, t)

\* int(text): surrounding whitespace and one sign are accepted
IntOfStr(s) == IntOfStripped(strip(s))

\* int(v): ValueError for text that is no integer literal, TypeError for None
PyInt(v) ==
    CASE v.ty = "str" -> IntOfStr(v.s)
      [] v.ty = "none" -> [ok |-> FALSE, n |-> 0]
      [] OTHER -> [ok |-> TRUE, n |-> v.n]

\* bool(v)
Truthy(v) ==
    CASE v.ty = "str" -> v.s # <<>>
      [] v.ty = "none" -> FALSE
      [] OTHER -> v.n # 0

\* str(v), for the values whose text matters to the caller
PyStr(v) ==
    CASE v.ty = "str" -> v.s
      [] v.ty = "none" -> <<"N", "o", "n", "e">>
      [] v.ty = "bool" -> IF v.n = 1 THEN <<"T", "r", "u", "e">> ELSE <<"F", "a", "l", "s", "e">>
      [] OTHER -> <<"#">>

(***************************************************************************)
(* JSON values and text                                                    *)
(***************************************************************************)
NoJson == [kind |-> "none", planKind |-> "absent", plan |-> <<>>]

\* {"plan": [...]}
PlanJson(steps) == [kind |-> "dict", planKind |-> "list", plan |-> steps]

\* a mapping without a plan key, e.g. {"error": "..."}
DictJson == [kind |-> "dict", planKind |-> "absent", plan |-> <<>>]

\* a JSON value that is no mapping, e.g. [1, 2]
OtherJson == [kind |-> "other", planKind |-> "absent", plan |-> <<>>]

\* {"plan": null} and {"plan": "abc"}
NullPlanJson == [kind |-> "dict", planKind |-> "null", plan |-> <<>>]

TextPlanJson == [kind |-> "dict", planKind |-> "other", plan |-> <<>>]

Ch(c) == [c |-> c, j |-> NoJson]

JsonCh(v) == [c |-> "JSON", j |-> v]

Text(s) == [i \in 1..Len(s) |-> Ch(s[i])]

WsChars == {Ch(c) : c \in Spaces}

Tick == "tick"

TickChars == {Ch(Tick)}

\* one step {"tool": t, "arguments": a}
Step(t, a) == [shape |-> "dict", tool |-> t, argsOk |-> TRUE, args |-> a]

NoArgs == [x \in {} |-> PNone]

CasualStep(answer) == Step("casual_query", [x \in {"answer"} |-> PStr(answer)])

(***************************************************************************)
(* client.py: plan_tools                                                   *)
(***************************************************************************)
Fence == <<Ch(Tick), Ch(Tick), Ch(Tick)>>

RECURSIVE RemoveFences(_)
\* str.replace of the three-backtick marker by "": left to right, non-overlapping
RemoveFences(s) ==
    IF s = <<>> THEN <<>>
    ELSE IF startswith(s, Fence) THEN RemoveFences(SubSeq(s, 4, Len(s)))
    ELSE <<s[1]>> \o RemoveFences(Tail(s))

\* str.lower() of a text
LowerText(s) == [i \in 1..Len(s) |-> IF s[i].j = NoJson THEN Ch(LowerChar(s[i].c)) ELSE s[i]]

\* the characters a JSON string literal may hold unescaped
InString(ch) == ch.j = NoJson /\ ch.c \notin (Spaces \ {" "}) \cup {"<", ">"}

\* json.loads: ok = FALSE is json.JSONDecodeError
json_loads(text) ==
    LET t == StripSet(text, WsChars)
    IN  IF Len(t) = 1 /\ t[1].j # NoJson
        THEN [ok |-> TRUE, val |-> t[1].j]
        ELSE IF /\ Len(t) >= 2
                /\ t[1] = Ch("<")
                /\ t[Len(t)] = Ch(">")
                /\ \A i \in 2..(Len(t) - 1) : InString(t[i])
        THEN [ok |-> TRUE, val |-> PlanJson(<<CasualStep([i \in 1..(Len(t) - 2) |-> t[i + 1].c])>>)]
        ELSE [ok |-> FALSE, val |-> NoJson]

\* the cleaning of the oracle text before it is parsed
CleanFences(c) ==
    LET c1 == StripSet(c, WsChars)
        c2 == StripSet(c1, TickChars)
        c3 == IF startswith(LowerText(c2), Text(<<"j", "s", "o", "n">>))
              THEN StripSet(SubSeq(c2, 5, Len(c2)), WsChars)
              ELSE c2
    IN  IF startswith(c1, Fence)
        THEN StripSet(RemoveFences(c3), WsChars)
        ELSE c1

EmptyPlan == PlanJson(<<>>)

Returned(v) == [called |-> TRUE, raised |-> FALSE, val |-> v]

Raised == [called |-> TRUE, raised |-> TRUE, val |-> NoJson]

NotCalled == [called |-> FALSE, raised |-> FALSE, val |-> NoJson]

\* plan_tools without its except clause
plan_tools_uncaught(c) ==
    IF c = <<>> THEN Returned(EmptyPlan)
    ELSE LET parsed == json_loads(CleanFences(c))
         IN  IF ~parsed.ok THEN Raised
             ELSE IF parsed.val.kind = "dict" /\ parsed.val.planKind # "absent"
             THEN Returned(parsed.val)
             ELSE Returned(EmptyPlan)

\* plan_tools on the oracle text c (empty for None and for "")
plan_tools(c) ==
    IF c = <<>> THEN Returned(EmptyPlan)
    ELSE LET parsed == json_loads(CleanFences(c))
         IN  IF ~parsed.ok THEN Returned(EmptyPlan)
             ELSE IF parsed.val.kind = "dict" /\ parsed.val.planKind # "absent"
             THEN Returned(parsed.val)
             ELSE Returned(EmptyPlan)

\* the plan the oracle texts of the plan-validator runs carry
SamplePlan == PlanJson(<<Step("health_check", NoArgs)>>)

\* the pieces oracle texts are built from
Tokens == {
    Fence,
    <<Ch(Tick)>>,
    <<Ch("\n")>>,
    Text(<<"j", "s", "o", "n">>),
    Text(<<"J", "S", "O", "N">>),
    Text(<<"p", "y">>),
    Text(<<"x">>),
    <<JsonCh(SamplePlan)>>,
    <<JsonCh(DictJson)>>,
    <<JsonCh(OtherJson)>>,
    <<Ch("<")>> \o Fence \o <<Ch(">")>> }

RECURSIVE Concat(_)
Concat(ss) == IF ss = <<>> THEN <<>> ELSE ss[1] \o Concat(Tail(ss))

OracleTexts == {Concat(ts) : ts \in UNION {[1..n -> Tokens] : n \in 0..MaxToks}}

(***************************************************************************)
(* server.py: field normalizer and query builder                           *)
(***************************************************************************)
\* an argument the caller left out (the parameter's default, "" or None)
Absent == PStr(<<>>)

\* int(text) as normalize_flight_number uses it: None for a ValueError
IntOrNone(parsed) == IF parsed.ok THEN PInt(parsed.n) ELSE PNone

\* normalize_flight_number: None when absent or not an integer literal
normalize_flight_number(v) ==
    IF v.ty = "none" \/ v = PStr(<<>>) THEN PNone
    ELSE IF v.ty \in {"int", "bool"} THEN PInt(v.n)
    ELSE IF v.ty = "str" THEN IntOrNone(IntOfStr(v.s))
    ELSE PNone

\* the positions of sep in s
SepAt(s, sep) == {i \in 1..Len(s) : s[i] = sep}

AllDigits(s) == s # <<>> /\ \A i \in 1..Len(s) : IsDigit(s[i])

IsLeap(y) == (y % 4 = 0 /\ y % 100 # 0) \/ y % 400 = 0

DaysIn(y, m) ==
    IF m = 2 THEN (IF IsLeap(y) THEN 29 ELSE 28)
    ELSE IF m \in {4, 6, 9, 11} THEN 30 ELSE 31

Pad2(n) == <<Digits[(n \div 10) + 1], Digits[(n % 10) + 1]>>

Pad4(n) == Pad2(n \div 100) \o Pad2(n % 100)

NoDate == [ok |-> FALSE, iso |-> <<>>]

\* strftime("%Y-%m-%d") of the date y-m-d when there is such a date
StrpDate(y, m, d) ==
    IF y >= 1 /\ m \in 1..12 /\ d >= 1 /\ d <= DaysIn(y, m)
    THEN [ok |-> TRUE, iso |-> Pad4(y) \o <<"-">> \o Pad2(m) \o <<"-">> \o Pad2(d)]
    ELSE NoDate

\* %Y takes exactly four digits, %m and %d one or two
StrpGroups(ys, ms, ds) ==
    IF /\ AllDigits(ys) /\ AllDigits(ms) /\ AllDigits(ds)
       /\ Len(ys) = 4 /\ Len(ms) <= 2 /\ Len(ds) <= 2
    THEN StrpDate(DigitsValue(ys), DigitsValue(ms), DigitsValue(ds))
    ELSE NoDate

\* s split at the separator positions i1 < i2
StrpSplit(s, i1, i2, yearFirst) ==
    IF yearFirst
    THEN StrpGroups(SubSeq(s, 1, i1 - 1), SubSeq(s, i1 + 1, i2 - 1), SubSeq(s, i2 + 1, Len(s)))
    ELSE StrpGroups(SubSeq(s, i2 + 1, Len(s)), SubSeq(s, i1 + 1, i2 - 1), SubSeq(s, 1, i1 - 1))

StrpAt(s, at, yearFirst) ==
    IF Cardinality(at) = 2
    THEN StrpSplit(s, CHOOSE i \in at : \A k \in at : i <= k,
                      CHOOSE i \in at : \A k \in at : i >= k, yearFirst)
    ELSE NoDate

\* datetime.strptime(s, fmt).strftime("%Y-%m-%d") for the numeric formats:
\* three digit groups around sep, the year first or last
StrpNumeric(s, sep, yearFirst) == StrpAt(s, SepAt(s, sep), yearFirst)

\* the first format that parses, else None
FirstParsed(tries) ==
    LET hit == {i \in 1..Len(tries) : tries[i].ok}
    IN  IF hit = {} THEN PNone
        ELSE PStr(tries[CHOOSE i \in hit : \A k \in hit : i <= k].iso)

\* validate_date on texts of digits and separators (the month-name formats
\* match none of them), in the order of the formats list
validate_date(v) ==
    IF ~Truthy(v) THEN PNone
    ELSE FirstParsed(<< StrpNumeric(v.s, "-", TRUE), StrpNumeric(v.s, "-", FALSE),
                        StrpNumeric(v.s, "/", TRUE), StrpNumeric(v.s, "/", FALSE) >>)

\* a store query: the set of <<field, value>> equality constraints
QField(name, v) == {<<name, v>>}

\* make_query, were the flight number tested as the other fields are
make_query_truthy(carrier, flight_number, date_of_origin, startStation, endStation) ==
    (IF Truthy(carrier) THEN QField("flightLegState.carrier", carrier) ELSE {})
    \cup (IF Truthy(flight_number) THEN QField("flightLegState.flightNumber", flight_number) ELSE {})
    \cup (IF Truthy(date_of_origin) THEN QField("flightLegState.dateOfOrigin", date_of_origin) ELSE {})
    \cup (IF Truthy(startStation) THEN QField("flightLegState.startStation", startStation) ELSE {})
    \cup (IF Truthy(endStation) THEN QField("flightLegState.endStation", endStation) ELSE {})

\* make_query
make_query(carrier, flight_number, date_of_origin, startStation, endStation) ==
    (IF Truthy(carrier) THEN QField("flightLegState.carrier", carrier) ELSE {})
    \cup (IF flight_number # PNone THEN QField("flightLegState.flightNumber", flight_number) ELSE {})
    \cup (IF Truthy(date_of_origin) THEN QField("flightLegState.dateOfOrigin", date_of_origin) ELSE {})
    \cup (IF Truthy(startStation) THEN QField("flightLegState.startStation", startStation) ELSE {})
    \cup (IF Truthy(endStation) THEN QField("flightLegState.endStation", endStation) ELSE {})

\* response_ok and response_error
response_ok(data) == [ok |-> TRUE, code |-> 200, data |-> data]

response_error(code) == [ok |-> FALSE, code |-> code, data |-> [kind |-> "error"]]

(***************************************************************************)
(* server.py: the collection and the candidate resolver                    *)
(***************************************************************************)
S(str) == PStr(str)

C6E == S(<<"6", "E">>)

DEL == S(<<"D", "E", "L">>)

BOM == S(<<"B", "O", "M">>)

GOI == S(<<"G", "O", "I">>)

Date1 == S(<<"2", "0", "2", "4", "-", "0", "6", "-", "2", "3">>)

\* a document with a flightLegState; idKind is the type of its _id.  delay is
\* flightLegState.delays.total and tail is equipment.aircraftRegistration,
\* None when the document does not hold the field
Leg(idKind, start, end, sched) ==
    [id |-> 0, idKind |-> idKind, fls |-> TRUE, carrier |-> C6E, flightNumber |-> PInt(215),
     dateOfOrigin |-> Date1, startStation |-> start, endStation |-> end, sched |-> PInt(sched),
     seqNumber |-> PInt(sched), delay |-> PNone, tail |-> PNone]

\* a document that has no flightLegState at all
Bare ==
    [id |-> 0, idKind |-> "oid", fls |-> FALSE, carrier |-> PNone, flightNumber |-> PNone,
     dateOfOrigin |-> PNone, startStation |-> PNone, endStation |-> PNone, sched |-> PNone,
     seqNumber |-> PNone, delay |-> PNone, tail |-> PNone]

\* the documents a collection is drawn from: two on one route at different
\* times, routes that differ in one station only, and a bare document
DocKinds == {
    Leg("oid", DEL, BOM, 1),
    Leg("str", DEL, BOM, 2),
    Leg("oid", DEL, GOI, 1),
    Leg("oid", BOM, GOI, 2),
    Bare }

\* every collection of at most MaxDocs documents; _id is the position.  The
\* store returns equal sort keys in natural order, and every natural order
\* is drawn here.
Stores ==
    UNION {{[i \in 1..n |-> [ks[i] EXCEPT !.id = i]] : ks \in [1..n -> DocKinds]} : n \in 0..MaxDocs}

\* the value of a dotted field path in document d, None when it is missing
FieldOf(d, name) ==
    CASE name = "flightLegState.carrier" -> d.carrier
      [] name = "flightLegState.flightNumber" -> d.flightNumber
      [] name = "flightLegState.dateOfOrigin" -> d.dateOfOrigin
      [] name = "flightLegState.startStation" -> d.startStation
      [] name = "flightLegState.endStation" -> d.endStation
      [] name = "flightLegState.scheduledStartTime" -> d.sched
      [] name = "flightLegState.delays.total" -> d.delay
      [] name = "flightLegState.equipment.aircraftRegistration" -> d.tail
      [] OTHER -> PNone

\* the order of the characters of a date text
CharCode(c) == IF IsDigit(c) THEN DigitVal(c) + 1 ELSE 0

\* a <= b for two texts, character by character
StrLeq(a, b) ==
    LET diff == {i \in 1..Len(a) : i > Len(b) \/ a[i] # b[i]}
    IN  IF diff = {} THEN TRUE
        ELSE LET i == CHOOSE k \in diff : \A m \in diff : k <= m
             IN  i <= Len(b) /\ CharCode(a[i]) < CharCode(b[i])

\* a <= b as the store compares two values: numbers with numbers and texts
\* with texts, values of different types never
ValueLeq(a, b) ==
    CASE a.ty = "int" /\ b.ty = "int" -> a.n <= b.n
      [] a.ty = "str" /\ b.ty = "str" -> StrLeq(a.s, b.s)
      [] OTHER -> FALSE

\* a mapping {k1: v1, ...} as its items in insertion order, and a list
PDict(items) == [ty |-> "dict", s |-> <<>>, n |-> 0, d |-> items]

PList(items) == [ty |-> "list", s |-> <<>>, n |-> 0, d |-> items]

\* whether value v satisfies the one operator condition {op: arg}; an
\* operator the collection does not evaluate selects nothing
MatchOp(v, op, arg) ==
    CASE op = "$eq" -> v = arg
      [] op = "$ne" -> v # arg
      [] op = "$gt" -> ValueLeq(arg, v) /\ v # arg
      [] op = "$gte" -> ValueLeq(arg, v)
      [] op = "$lte" -> ValueLeq(v, arg)
      [] op = "$in" -> \E i \in 1..Len(arg.d) : arg.d[i] = v
      [] op = "$nin" -> \A i \in 1..Len(arg.d) : arg.d[i] # v
      [] op = "$exists" -> (v # PNone) = (arg.n = 1)
      [] OTHER -> FALSE

\* whether value v satisfies the condition cond of a filter: a mapping of
\* operators, or a value to equal
MatchCond(v, cond) ==
    IF cond.ty = "dict"
    THEN \A i \in 1..Len(cond.d) : MatchOp(v, cond.d[i][1], cond.d[i][2])
    ELSE v = cond

\* whether document d satisfies query q, a set of <<field, condition>>
Matches(d, q) == \A c \in q : MatchCond(FieldOf(d, c[1]), c[2])

\* the sort key of scheduledStartTime: a missing value sorts first
SortKey(d) == IF d.sched = PNone THEN 0 - 1 ELSE d.sched.n

RECURSIVE SortIdx(_, _)
\* the indices idxs of st by ascending sort key, equal keys in natural order
SortIdx(st, idxs) ==
    IF idxs = {} THEN <<>>
    ELSE LET m == CHOOSE i \in idxs : \A k \in idxs :
                      \/ SortKey(st[i]) < SortKey(st[k])
                      \/ SortKey(st[i]) = SortKey(st[k]) /\ i <= k
         IN  <<st[m]>> \o SortIdx(st, idxs \ {m})

\* col.find(query).sort("flightLegState.scheduledStartTime", 1)
FindSorted(st, q) == SortIdx(st, {i \in 1..Len(st) : Matches(st[i], q)})

\* cursor.limit(n)
Limit(cur, n) == SubSeq(cur, 1, IF Len(cur) < n THEN Len(cur) ELSE n)

\* the deduplication key without the two stations
unique_key_no_stations(d) == <<d.carrier, d.flightNumber, d.dateOfOrigin, PNone, PNone>>

\* the deduplication key of _find_matching_doc_meta
unique_key(d) == <<d.carrier, d.flightNumber, d.dateOfOrigin, d.startStation, d.endStation>>

\* the candidate entry built for a fetched document
Candidate(d) ==
    [doc_id |-> d.id, startStation |-> d.startStation, endStation |-> d.endStation,
     scheduledStartTime |-> d.sched]

RECURSIVE MetaLoop(_, _, _, _)
\* the async-for loop of _find_matching_doc_meta over the cursor cur
MetaLoop(cur, docs, seen, limit) ==
    IF cur = <<>> THEN docs
    ELSE IF unique_key(cur[1]) \in seen THEN MetaLoop(Tail(cur), docs, seen, limit)
    ELSE IF Len(docs) + 1 >= limit THEN Append(docs, Candidate(cur[1]))
    ELSE MetaLoop(Tail(cur), Append(docs, Candidate(cur[1])), seen \cup {unique_key(cur[1])}, limit)

\* _find_matching_doc_meta; fails is a store exception anywhere in it
find_matching_doc_meta(st, query, limit, fails) ==
    IF fails THEN [count |-> 0, documents |-> <<>>, error |-> TRUE]
    ELSE LET docs == MetaLoop(Limit(FindSorted(st, query), limit * 2), <<>>, {}, limit)
         IN  [count |-> Len(docs), documents |-> docs, error |-> FALSE]

NoDoc == [found |-> FALSE, empty |-> TRUE, id |-> 0, projection |-> "none"]

\* find_one(...) under an inclusion projection of flightLegState fields, with
\* _id and _class popped: empty when the document has no flightLegState
Projected(d, projection) == [found |-> TRUE, empty |-> ~d.fls, id |-> d.id, projection |-> projection]

\* _get_document_by_id: by ObjectId first, then by string _id; None when
\* neither finds it or the store raises
get_document_by_id(st, doc_id, projection, fails) ==
    LET byOid == {i \in 1..Len(st) : st[i].idKind = "oid" /\ st[i].id = doc_id}
        byStr == {i \in 1..Len(st) : st[i].idKind = "str" /\ st[i].id = doc_id}
    IN  IF fails THEN NoDoc
        ELSE IF byOid # {} THEN Projected(st[CHOOSE i \in byOid : TRUE], projection)
        ELSE IF byStr # {} THEN Projected(st[CHOOSE i \in byStr : TRUE], projection)
        ELSE NoDoc

\* the limit every single-flight lookup passes to the resolver
LookupLimit == 50

\* the arguments of a single-flight lookup
Request(carrier, flight_number, date_of_origin, startStation, endStation) ==
    [carrier |-> carrier, flight_number |-> flight_number, date_of_origin |-> date_of_origin,
     startStation |-> startStation, endStation |-> endStation]

\* fn = normalize_flight_number(flight_number) if flight_number else None
FlightNumberOf(a) == IF Truthy(a.flight_number) THEN normalize_flight_number(a.flight_number) ELSE PNone

\* dob = validate_date(date_of_origin) if date_of_origin else None
DateOf(a) == IF Truthy(a.date_of_origin) THEN validate_date(a.date_of_origin) ELSE PNone

\* the query a lookup composes from its arguments
LookupQuery(a) == make_query(a.carrier, FlightNumberOf(a), DateOf(a), a.startStation, a.endStation)

\* the branch on the candidates: none, exactly one (its full record is
\* fetched; nothing fetched is "Document not found"), or several
LookupResponse(meta, full_doc, query) ==
    IF meta.error THEN response_error(500)
    ELSE IF meta.count = 0 THEN response_error(404)
    ELSE IF meta.count = 1
    THEN (IF ~full_doc.found \/ full_doc.empty
          THEN response_error(404)
          ELSE response_ok([kind |-> "doc", doc |-> full_doc]))
    ELSE response_ok([kind |-> "ambiguous", needs_route_selection |-> TRUE,
                      count |-> meta.count, matches |-> meta.documents,
                      original_query |-> query])

\* the lookup once the candidates are enumerated
LookupResolved(op, st, a, fail, query, meta) ==
    [op |-> op, a |-> a, fail |-> fail, query |-> query, queried |-> TRUE, meta |-> meta,
     resp |-> LookupResponse(meta,
                             IF meta.count = 1
                             THEN get_document_by_id(st, meta.documents[1].doc_id, op, fail = "fetch")
                             ELSE NoDoc,
                             query)]

\* the lookup once the query is composed
LookupQueried(op, st, a, fail, query) ==
    LookupResolved(op, st, a, fail, query, find_matching_doc_meta(st, query, LookupLimit, fail = "meta"))

\* a lookup that stops at a date that does not validate
LookupRejected(op, a, fail) ==
    [op |-> op, a |-> a, fail |-> fail, query |-> {}, queried |-> FALSE,
     meta |-> find_matching_doc_meta(<<>>, {}, LookupLimit, FALSE), resp |-> response_error(400)]

\* the body the seven single-flight lookups share; checksDate is whether the
\* operation rejects a date that does not validate; fail is where the store
\* raises: "none", "meta" (candidate enumeration) or "fetch" (the full record)
SingleFlightLookup(op, checksDate, st, a, fail) ==
    IF checksDate /\ Truthy(a.date_of_origin) /\ ~Truthy(DateOf(a))
    THEN LookupRejected(op, a, fail)
    ELSE LookupQueried(op, st, a, fail, LookupQuery(a))

get_flight_basic_info(st, a, fail) == SingleFlightLookup("get_flight_basic_info", TRUE, st, a, fail)

get_operation_times(st, a, fail) == SingleFlightLookup("get_operation_times", TRUE, st, a, fail)

get_equipment_info(st, a, fail) == SingleFlightLookup("get_equipment_info", FALSE, st, a, fail)

get_delay_summary(st, a, fail) == SingleFlightLookup("get_delay_summary", FALSE, st, a, fail)

get_fuel_summary(st, a, fail) == SingleFlightLookup("get_fuel_summary", FALSE, st, a, fail)

get_passenger_info(st, a, fail) == SingleFlightLookup("get_passenger_info", FALSE, st, a, fail)

get_crew_info(st, a, fail) == SingleFlightLookup("get_crew_info", FALSE, st, a, fail)

(***************************************************************************)
(* server.py: raw_mongodb_query and casual_query                           *)
(***************************************************************************)
ArgOr(args, k, default) == IF k \in DOMAIN args THEN args[k] ELSE default

EmptyFilterText == <<"{", "}">>

\* the operators forbidden_ops names
ForbiddenOps == {"$where", "$out", "$merge", "$accumulator", "$function"}

\* key.startswith("$"), over the keys of the filters drawn here
StartsWithSigil(key) ==
    key \in ForbiddenOps \cup {"$expr", "$or", "$eq", "$ne", "$gt", "$gte", "$lte", "$in", "$nin", "$exists"}

\* "delays.total" in key, over the same keys
MentionsDelayTotal(key) == key = "flightLegState.delays.total"

\* "flightNumber" in key
MentionsFlightNumber(key) == key = "flightLegState.flightNumber"

\* the zero-delay encodings of the two rewrites
ZeroDelayExcluded == PList(<<PStr(<<"P", "T", "0", "H", "0", "M">>), PStr(<<"0", "0", ":", "0", "0">>), PStr(<<>>), PNone>>)

ZeroDelayIncluded == PList(<<PStr(<<"P", "T", "0", "H", "0", "M">>), PStr(<<"0", "0", ":", "0", "0">>)>>)

\* JSON texts of filter documents.  A text of one element stands for the
\* complete text of the document the element spells.
TextCarrier == "{\"flightLegState.carrier\": \"6E\"}"

TextCarrierSingleQuoted == "{'flightLegState.carrier': '6E'}"

TextWhere == "{\"$where\": \"sleep(1000)\"}"

TextExprFunction == "{\"$expr\": {\"$function\": {}}}"

TextNestedFunction == "{\"flightLegState.carrier\": {\"$function\": {}}}"

TextDelayGt0 == "{\"flightLegState.delays.total\": {\"$gt\": 0}}"

TextDelayEq0 == "{\"flightLegState.delays.total\": {\"$eq\": 0}, \"flightLegState.carrier\": \"6E\"}"

TextDelayNeGt0 == "{\"flightLegState.delays.total\": {\"$ne\": \"00:45\", \"$gt\": 0}}"

JsonTexts == {TextCarrier, TextWhere, TextExprFunction, TextNestedFunction, TextDelayGt0, TextDelayEq0,
              TextDelayNeGt0}

\* the document each JSON text spells
JsonDocs ==
    [t \in JsonTexts |->
        CASE t = TextCarrier -> PDict(<< <<"flightLegState.carrier", C6E>> >>)
          [] t = TextWhere -> PDict(<< <<"$where", PStr(<<"s", "l", "e", "e", "p">>)>> >>)
          [] t = TextExprFunction -> PDict(<< <<"$expr", PDict(<< <<"$function", PDict(<<>>)>> >>)>> >>)
          [] t = TextNestedFunction ->
                PDict(<< <<"flightLegState.carrier", PDict(<< <<"$function", PDict(<<>>)>> >>)>> >>)
          [] t = TextDelayGt0 ->
                PDict(<< <<"flightLegState.delays.total", PDict(<< <<"$gt", PInt(0)>> >>)>> >>)
          [] t = TextDelayEq0 ->
                PDict(<< <<"flightLegState.delays.total", PDict(<< <<"$eq", PInt(0)>> >>)>>,
                         <<"flightLegState.carrier", C6E>> >>)
          [] OTHER ->
                PDict(<< <<"flightLegState.delays.total",
                           PDict(<< <<"$ne", PStr(<<"0", "0", ":", "4", "5">>)>>, <<"$gt", PInt(0)>> >>)>> >>)]

\* text.replace("'", '"')
ReplaceSingleQuotes(text) ==
    [i \in 1..Len(text) |-> IF text[i] = TextCarrierSingleQuoted THEN TextCarrier ELSE text[i]]

\* json.loads of a filter text: "{}" is the empty mapping, "[]" a list;
\* ok = FALSE is json.JSONDecodeError
FilterLoads(t) ==
    IF t = EmptyFilterText THEN [ok |-> TRUE, val |-> PDict(<<>>)]
    ELSE IF t = <<"[", "]">> THEN [ok |-> TRUE, val |-> PList(<<>>)]
    ELSE IF Len(t) = 1 /\ t[1] \in JsonTexts THEN [ok |-> TRUE, val |-> JsonDocs[t[1]]]
    ELSE [ok |-> FALSE, val |-> PNone]

\* _safe_json_loads: json.loads, and once more with the single quotes
\* replaced; ok = FALSE is the ValueError
safe_json_loads(text) ==
    IF FilterLoads(strip(text)).ok THEN FilterLoads(strip(text))
    ELSE FilterLoads(strip(ReplaceSingleQuotes(text)))

\* the filter a mapping is to the store: its <<key, condition>> items
QueryOf(doc) == {doc.d[i] : i \in 1..Len(doc.d)}

\* the keys of a mapping
KeysOf(doc) == {doc.d[i][1] : i \in 1..Len(doc.d)}

\* the limit raw_mongodb_query puts on its cursor
ClampLimit(n) == IF n < 1 THEN 1 ELSE IF n > 50 THEN 50 ELSE n

\* a store call an operation issued, with the filter (or $match stage) passed
StoreCall(call, filter) == [call |-> call, filter |-> filter]

\* what an operation did: the store calls it issued, whether an exception
\* left it, and the envelope it returned otherwise
Outcome(op, storeCalls, resp) == [op |-> op, storeCalls |-> storeCalls, escaped |-> FALSE, resp |-> resp]

Escaped(op, storeCalls) ==
    [op |-> op, storeCalls |-> storeCalls, escaped |-> TRUE, resp |-> response_error(0)]

\* the documents cursor.limit(n) yields for the matching documents
CountFound(st, query, lim) ==
    IF Cardinality({i \in 1..Len(st) : Matches(st[i], query)}) < lim
    THEN Cardinality({i \in 1..Len(st) : Matches(st[i], query)})
    ELSE lim

\* raw_mongodb_query from its iteration of the cursor on
RawFound(query, count) ==
    Outcome("raw_mongodb_query", <<StoreCall("find", query)>>,
            IF count = 0 THEN response_error(404)
            ELSE response_ok([kind |-> "listing", count |-> count]))

\* raw_mongodb_query from the parsed query on, were the operator guard over
\* the top-level keys left out
RawParsedUnguarded(st, parsed, limit, fail) ==
    IF ~parsed.ok THEN Outcome("raw_mongodb_query", <<>>, response_error(400))
    ELSE IF parsed.val.ty # "dict" THEN Outcome("raw_mongodb_query", <<>>, response_error(400))
    ELSE IF ~PyInt(limit).ok THEN Outcome("raw_mongodb_query", <<>>, response_error(500))
    ELSE IF fail = "find"
    THEN Outcome("raw_mongodb_query", <<StoreCall("find", QueryOf(parsed.val))>>, response_error(500))
    ELSE RawFound(QueryOf(parsed.val), CountFound(st, QueryOf(parsed.val), ClampLimit(PyInt(limit).n)))

\* raw_mongodb_query from the parsed query on: the type test, the operator
\* guard over the top-level keys, the limit, the find
RawParsed(st, parsed, limit, fail) ==
    IF ~parsed.ok THEN Outcome("raw_mongodb_query", <<>>, response_error(400))
    ELSE IF parsed.val.ty # "dict" THEN Outcome("raw_mongodb_query", <<>>, response_error(400))
    ELSE IF \E key \in KeysOf(parsed.val) : key \in ForbiddenOps \/ StartsWithSigil(key)
    THEN Outcome("raw_mongodb_query", <<>>, response_error(400))
    ELSE IF ~PyInt(limit).ok THEN Outcome("raw_mongodb_query", <<>>, response_error(500))
    ELSE IF fail = "find"
    THEN Outcome("raw_mongodb_query", <<StoreCall("find", QueryOf(parsed.val))>>, response_error(500))
    ELSE RawFound(QueryOf(parsed.val), CountFound(st, QueryOf(parsed.val), ClampLimit(PyInt(limit).n)))

\* raw_mongodb_query(query_json, limit), the projection left at its default;
\* fail is the store call that raises: "none", "handle" or "find".  A
\* query_json that is no text is the TypeError of json.loads.
raw_mongodb_query(st, query_json, limit, fail) ==
    IF fail = "handle" THEN Outcome("raw_mongodb_query", <<>>, response_error(500))
    ELSE IF query_json.ty # "str" THEN Outcome("raw_mongodb_query", <<>>, response_error(500))
    ELSE RawParsed(st, safe_json_loads(query_json.s), limit, fail)

\* casual_query(answer): the answer text as the payload
casual_query == response_ok([kind |-> "str"])

(***************************************************************************)
(* client.py: invoke_tool and run_query                                    *)
(***************************************************************************)
\* what invoke_tool returns: the parsed envelope of the one content item, the
\* text of an item that is no JSON, or {"error": ...} for an exception
Envelope(e) == [kind |-> "dict", env |-> e]

TextResp == [kind |-> "text", env |-> response_error(0)]

ErrorDict == [kind |-> "errdict", env |-> response_error(0)]

\* the arguments of a single-flight lookup as the tool function binds them
RequestOf(args) ==
    Request(ArgOr(args, "carrier", Absent), ArgOr(args, "flight_number", Absent),
            ArgOr(args, "date_of_origin", Absent), ArgOr(args, "startStation", Absent),
            ArgOr(args, "endStation", Absent))

\* session.call_tool(tool, args) on the server holding st
CallTool(st, tool, args) ==
    CASE tool = "get_flight_basic_info" -> Envelope(get_flight_basic_info(st, RequestOf(args), "none").resp)
      [] tool = "get_operation_times" -> Envelope(get_operation_times(st, RequestOf(args), "none").resp)
      [] tool = "get_equipment_info" -> Envelope(get_equipment_info(st, RequestOf(args), "none").resp)
      [] tool = "get_delay_summary" -> Envelope(get_delay_summary(st, RequestOf(args), "none").resp)
      [] tool = "get_fuel_summary" -> Envelope(get_fuel_summary(st, RequestOf(args), "none").resp)
      [] tool = "get_passenger_info" -> Envelope(get_passenger_info(st, RequestOf(args), "none").resp)
      [] tool = "get_crew_info" -> Envelope(get_crew_info(st, RequestOf(args), "none").resp)
      [] tool = "raw_mongodb_query" ->
            Envelope(raw_mongodb_query(st, ArgOr(args, "query_json", PNone), ArgOr(args, "limit", PInt(10)), "none").resp)
      [] tool = "casual_query" -> Envelope(casual_query)
      [] OTHER -> TextResp

\* invoke_tool: every exception of the session becomes an error mapping
invoke_tool(st, tool, args, sessionFails) ==
    IF sessionFails THEN ErrorDict ELSE CallTool(st, tool, args)

Unknown == <<"u", "n", "k", "n", "o", "w", "n">>

\* the argument filter of run_query: keep k when args[k] is truthy and its
\* text, trimmed and lower-cased, is not "unknown"
CleanArgs(args) ==
    LET keep == {k \in DOMAIN args : Truthy(args[k]) /\ lower(strip(PyStr(args[k]))) # Unknown}
    IN  [k \in keep |-> args[k]]

\* run_query without its short-circuit test
needs_route_selection_ignored(resp) == FALSE

\* the short-circuit test of run_query on a response
needs_route_selection(resp) ==
    /\ resp.kind = "dict"
    /\ resp.env.ok
    /\ resp.env.data.kind = "ambiguous"
    /\ resp.env.data.needs_route_selection

\* the entries of results
Entry(tool, resp) == [tool |-> tool, rejected |-> FALSE, resp |-> resp]

Rejection == [tool |-> "raw_mongodb_query", rejected |-> TRUE, resp |-> ErrorDict]

\* what run_query returns
ErrorReturn(why) == [kind |-> "error", why |-> why]

AmbiguousReturn(p, r) == [kind |-> "ambiguous", plan |-> p, results |-> r, needs_route_selection |-> TRUE]

SummaryReturn(p, r) == [kind |-> "summary", plan |-> p, results |-> r]

\* run_query dispatching a raw_mongodb_query step without testing its filter
EmptyQueryJsonIgnored(args) == FALSE

\* whether run_query rejects a raw_mongodb_query step with these arguments
EmptyQueryJson(args) == ~Truthy(ArgOr(args, "query_json", PStr(<<>>)))

\* args["limit"] = int(args.get("limit", 50)): ok = FALSE is the ValueError
LimitOf(args) == PyInt(ArgOr(args, "limit", PInt(50)))

WithLimit(args) == [k \in DOMAIN args \cup {"limit"} |-> IF k = "limit" THEN PInt(LimitOf(args).n) ELSE args[k]]

\* an element of a plan that is no mapping
NotAStep == [shape |-> "other", tool |-> "", argsOk |-> FALSE, args |-> NoArgs]

\* plan = plan_data.get("plan", []): a plan value that is no list but truthy
\* is iterated all the same, and its first element is no step
PlanOf(plan_data) ==
    CASE plan_data.planKind = "list" -> plan_data.plan
      [] plan_data.planKind = "other" -> <<NotAStep>>
      [] OTHER -> <<>>

Returns(r) ==
    /\ ret' = r
    /\ pc' = "done"

\* run_query up to the loop: plan_tools, then the test for an empty plan
RunQueryPlan ==
    /\ pc = "start"
    /\ planOut' = plan_tools(content)
    /\ IF planOut'.raised
       THEN Returns(ErrorReturn("exception")) /\ plan' = <<>>
       ELSE IF PlanOf(planOut'.val) = <<>>
       THEN Returns(ErrorReturn("no_plan")) /\ plan' = <<>>
       ELSE pc' = "loop" /\ plan' = PlanOf(planOut'.val) /\ ret' = ret
    /\ UNCHANGED <<mongo_client, constructed, reqs, store, srv, content, idx, results, calls, summarized>>

\* one iteration of the loop of run_query over plan[idx + 1]
RunQueryStep ==
    /\ pc = "loop"
    /\ idx < Len(plan)
    /\ \E sessionFails \in BOOLEAN :
        LET step == plan[idx + 1]
            tool == step.tool
            args == CleanArgs(step.args)
            raw == tool = "raw_mongodb_query"
            sent == IF raw THEN WithLimit(args) ELSE args
            resp == invoke_tool(store, tool, sent, sessionFails)
        IN  IF step.shape # "dict" \/ ~step.argsOk
            THEN Returns(ErrorReturn("exception")) /\ UNCHANGED <<idx, results, calls>>
            ELSE IF raw /\ EmptyQueryJson(args)
            THEN /\ results' = Append(results, Rejection)
                 /\ idx' = idx + 1
                 /\ UNCHANGED <<calls, pc, ret>>
            ELSE IF raw /\ ~LimitOf(args).ok
            THEN Returns(ErrorReturn("exception")) /\ UNCHANGED <<idx, results, calls>>
            ELSE /\ calls' = Append(calls, [step |-> idx + 1, tool |-> tool, args |-> sent])
                 /\ results' = Append(results, Entry(tool, resp))
                 /\ idx' = idx + 1
                 /\ IF needs_route_selection(resp)
                    THEN Returns(AmbiguousReturn(plan, results'))
                    ELSE UNCHANGED <<pc, ret>>
    /\ UNCHANGED <<mongo_client, constructed, reqs, store, srv, content, planOut, plan, summarized>>

\* after the loop: summarize_results, then the return
RunQuerySummarize ==
    /\ pc = "loop"
    /\ idx = Len(plan)
    /\ summarized' = TRUE
    /\ Returns(SummaryReturn(plan, results))
    /\ UNCHANGED <<mongo_client, constructed, reqs, store, srv, content, planOut, plan, idx, results, calls>>

(***************************************************************************)
(* The server alone: a collection, then one operation on it                *)
(***************************************************************************)
BadNumber == S(<<"a", "b", "c">>)

Date1DMY == S(<<"2", "3", "-", "0", "6", "-", "2", "0", "2", "4">>)

BadDate == S(<<"2", "0", "2", "4", "-", "1", "3", "-", "4", "5">>)

\* the lookups the server is asked: no argument at all, the flight with and
\* without stations, a flight number or a date that does not normalize, the
\* flight number as text between blanks, flight number zero as text and as
\* an integer
Requests == {
    Request(Absent, Absent, Absent, Absent, Absent),
    Request(C6E, PInt(215), Date1DMY, Absent, Absent),
    Request(C6E, PInt(215), Date1, DEL, Absent),
    Request(C6E, PInt(215), Date1, Absent, GOI),
    Request(C6E, PInt(215), Date1, DEL, BOM),
    Request(C6E, PInt(215), Date1, BOM, DEL),
    Request(C6E, BadNumber, Date1, DEL, BOM),
    Request(C6E, PInt(215), BadDate, Absent, Absent),
    Request(C6E, S(<<" ", "2", "1", "5", " ">>), Date1, DEL, BOM),
    Request(C6E, S(<<"0">>), Date1, Absent, Absent),
    Request(C6E, PInt(0), Date1, Absent, Absent) }

Fails == {"none", "meta", "fetch"}

LookupOps == {"get_flight_basic_info", "get_operation_times", "get_equipment_info",
              "get_delay_summary", "get_fuel_summary", "get_passenger_info", "get_crew_info"}

InitServer ==
    /\ store \in Stores
    /\ srv = NoSrv
    /\ content = <<>>
    /\ planOut = NotCalled
    /\ ClientIdle
    /\ NoRequests

\* the server is idle until its one operation has run
ServerIdle == pc = "idle" /\ srv = NoSrv

\* a direct call of the resolver, with a limit small enough to be reached
FindMatchingDocMeta ==
    /\ ServerIdle
    /\ \E a \in Requests, limit \in 1..MaxLimit, fails \in BOOLEAN :
           srv' = [op |-> "find_matching_doc_meta", query |-> LookupQuery(a), limit |-> limit,
                   fail |-> IF fails THEN "meta" ELSE "none",
                   meta |-> find_matching_doc_meta(store, LookupQuery(a), limit, fails)]
    /\ UNCHANGED <<mongo_client, constructed, reqs, store, content, planOut, pc, plan, idx, results, calls, summarized, ret>>

GetFlightBasicInfo ==
    /\ ServerIdle
    /\ \E a \in Requests, f \in Fails : srv' = get_flight_basic_info(store, a, f)
    /\ UNCHANGED <<mongo_client, constructed, reqs, store, content, planOut, pc, plan, idx, results, calls, summarized, ret>>

GetOperationTimes ==
    /\ ServerIdle
    /\ \E a \in Requests, f \in Fails : srv' = get_operation_times(store, a, f)
    /\ UNCHANGED <<mongo_client, constructed, reqs, store, content, planOut, pc, plan, idx, results, calls, summarized, ret>>

GetEquipmentInfo ==
    /\ ServerIdle
    /\ \E a \in Requests, f \in Fails : srv' = get_equipment_info(store, a, f)
    /\ UNCHANGED <<mongo_client, constructed, reqs, store, content, planOut, pc, plan, idx, results, calls, summarized, ret>>

GetDelaySummary ==
    /\ ServerIdle
    /\ \E a \in Requests, f \in Fails : srv' = get_delay_summary(store, a, f)
    /\ UNCHANGED <<mongo_client, constructed, reqs, store, content, planOut, pc, plan, idx, results, calls, summarized, ret>>

GetFuelSummary ==
    /\ ServerIdle
    /\ \E a \in Requests, f \in Fails : srv' = get_fuel_summary(store, a, f)
    /\ UNCHANGED <<mongo_client, constructed, reqs, store, content, planOut, pc, plan, idx, results, calls, summarized, ret>>

GetPassengerInfo ==
    /\ ServerIdle
    /\ \E a \in Requests, f \in Fails : srv' = get_passenger_info(store, a, f)
    /\ UNCHANGED <<mongo_client, constructed, reqs, store, content, planOut, pc, plan, idx, results, calls, summarized, ret>>

GetCrewInfo ==
    /\ ServerIdle
    /\ \E a \in Requests, f \in Fails : srv' = get_crew_info(store, a, f)
    /\ UNCHANGED <<mongo_client, constructed, reqs, store, content, planOut, pc, plan, idx, results, calls, summarized, ret>>

NextServer ==
    \/ FindMatchingDocMeta
    \/ GetFlightBasicInfo
    \/ GetOperationTimes
    \/ GetEquipmentInfo
    \/ GetDelaySummary
    \/ GetFuelSummary
    \/ GetPassengerInfo
    \/ GetCrewInfo

SpecServer == InitServer /\ [][NextServer]_vars

\* the stored document a candidate was built from
DocOf(cand) == store[cand.doc_id]

\* the Canonical Flight Key of a stored document
FlightKey(d) == <<d.carrier, d.flightNumber, d.dateOfOrigin, d.startStation, d.endStation>>

\* what the resolver of the last operation was given, and its limit
ResolverRan == srv.op \in LookupOps \cup {"find_matching_doc_meta"} /\ ~srv.meta.error
               /\ (srv.op \in LookupOps => srv.queried)

ResolverLimit == IF srv.op \in LookupOps THEN LookupLimit ELSE srv.limit

Fetched == Limit(FindSorted(store, srv.query), 2 * ResolverLimit)

\* the positions of the fetched records f that show a flight key for the first time
FirstSeen(f) == {i \in 1..Len(f) : \A k \in 1..(i - 1) : FlightKey(f[k]) # FlightKey(f[i])}

\* C2: a single-flight lookup is decided by the number U of unique candidates
\* the resolver yields: none is a 404, one is a success holding that record
\* under the operation's projection, two or more is the route-selection
\* success with count U, the U candidates and the composed query.
C2_OutcomeByCandidateCount ==
    (srv.op \in LookupOps /\ srv.queried /\ srv.fail = "none") =>
        LET U == srv.meta.count
        IN  /\ U = 0 => srv.resp = response_error(404)
            /\ U = 1 => /\ srv.resp.ok
                        /\ srv.resp.data.kind = "doc"
                        /\ srv.resp.data.doc.id = srv.meta.documents[1].doc_id
                        /\ srv.resp.data.doc.projection = srv.op
            /\ U >= 2 => /\ srv.resp.ok
                         /\ srv.resp.data.kind = "ambiguous"
                         /\ srv.resp.data.needs_route_selection
                         /\ srv.resp.data.count = U
                         /\ srv.resp.data.matches = srv.meta.documents
                         /\ Len(srv.resp.data.matches) = U
                         /\ srv.resp.data.original_query = srv.query

\* the same, for a single candidate whose record has a flightLegState
LookupOutcomeOfLegRecords ==
    (srv.op \in LookupOps /\ srv.queried /\ srv.fail = "none"
        /\ (srv.meta.count = 1 => DocOf(srv.meta.documents[1]).fls))
    => C2_OutcomeByCandidateCount

\* C3: the candidate list holds exactly one candidate per distinct flight key
\* fetched before the limit was reached, the first record of each: records
\* sharing a key collapse to one candidate, records that differ in a station
\* never do.
C3_OneCandidatePerFlightKey ==
    ResolverRan =>
        LET fetched == Fetched
            first == FirstSeen(fetched)
            docs == srv.meta.documents
            n == IF Cardinality(first) < ResolverLimit THEN Cardinality(first) ELSE ResolverLimit
        IN  /\ srv.meta.count = Len(docs)
            /\ Len(docs) = n
            /\ \A j \in 1..Len(docs) :
                   /\ docs[j] = Candidate(DocOf(docs[j]))
                   /\ \E i \in first :
                          /\ fetched[i] = DocOf(docs[j])
                          /\ Cardinality({k \in first : k <= i}) = j
            /\ \A j, k \in 1..Len(docs) : j # k => FlightKey(DocOf(docs[j])) # FlightKey(DocOf(docs[k]))

\* three records fetched, two of them on one route and the third differing
\* from them in its end station only: two candidates
C3_Witness ==
    /\ ResolverRan
    /\ Len(Fetched) = 3
    /\ Cardinality({FlightKey(Fetched[i]) : i \in 1..3}) = 2
    /\ \E i, k \in 1..3 : /\ Fetched[i].startStation = Fetched[k].startStation
                          /\ Fetched[i].endStation # Fetched[k].endStation
    /\ srv.meta.count = 2

\* C11: a lookup given a non-empty date that matches no recognized format
\* answers 400 without querying the store; the date is never dropped from the
\* query as if it were absent.
C11_InvalidDateRejected ==
    (srv.op \in LookupOps /\ srv.fail = "none"
        /\ Truthy(srv.a.date_of_origin) /\ validate_date(srv.a.date_of_origin) = PNone)
    => (srv.resp = response_error(400) /\ ~srv.queried)

\* the same, for the two lookups that test the validated date
InvalidDateRejectedWhereTested ==
    (srv.op \in {"get_flight_basic_info", "get_operation_times"} /\ srv.fail = "none"
        /\ Truthy(srv.a.date_of_origin) /\ validate_date(srv.a.date_of_origin) = PNone)
    => (srv.resp = response_error(400) /\ ~srv.queried)

\* the store raised during the last lookup: while the candidates were
\* enumerated, or while the full record of the single candidate was fetched
StoreFailedInLookup ==
    /\ srv.op \in LookupOps
    /\ srv.queried
    /\ (srv.fail = "meta" \/ (srv.fail = "fetch" /\ srv.meta.count = 1))

\* C17: a store failure during a lookup's resolution is answered with an
\* error envelope of code 500 or 503, never with 404 and never with success.
C17_StoreFailureIsBackendError ==
    StoreFailedInLookup => (~srv.resp.ok /\ srv.resp.code \in {500, 503})

\* the same, for a failure while the candidates are enumerated
EnumerationFailureIsBackendError ==
    (srv.op \in LookupOps /\ srv.queried /\ srv.fail = "meta") => srv.resp = response_error(500)

\* a lookup composed its query and asked the store
LookupQueriedStore == srv.op \in LookupOps /\ srv.queried

\* C25: a lookup given the decimal text of an integer n, blanks around it
\* allowed, normalizes the flight number to n and composes the query the
\* same lookup composes when given n as an integer.
C25_TextAndIntegerAgree ==
    (LookupQueriedStore /\ srv.a.flight_number.ty = "str" /\ IntOfStr(srv.a.flight_number.s).ok)
    => LET n == IntOfStr(srv.a.flight_number.s).n
       IN  /\ normalize_flight_number(srv.a.flight_number) = PInt(n)
           /\ normalize_flight_number(PInt(n)) = PInt(n)
           /\ srv.query = LookupQuery([srv.a EXCEPT !.flight_number = PInt(n)])

\* what does hold: the same for every n other than zero
TextAndIntegerAgreeExceptZero ==
    (LookupQueriedStore /\ srv.a.flight_number.ty = "str" /\ IntOfStr(srv.a.flight_number.s).ok
        /\ IntOfStr(srv.a.flight_number.s).n # 0)
    => srv.query = LookupQuery([srv.a EXCEPT !.flight_number = PInt(IntOfStr(srv.a.flight_number.s).n)])

\* a value that is neither null nor empty
NonEmpty(v) == v # PNone /\ v # PStr(<<>>)

\* the Canonical Flight Key of a lookup: each query field with its value
FlightKeyFields(a) ==
    {<<"flightLegState.carrier", a.carrier>>,
     <<"flightLegState.flightNumber", FlightNumberOf(a)>>,
     <<"flightLegState.dateOfOrigin", DateOf(a)>>,
     <<"flightLegState.startStation", a.startStation>>,
     <<"flightLegState.endStation", a.endStation>>}

\* C26: the composed query holds exactly the fields of the Canonical Flight
\* Key that are neither empty nor null, each once and with its value
\* unchanged.
C26_QueryHoldsSuppliedFields ==
    LookupQueriedStore => srv.query = {f \in FlightKeyFields(srv.a) : NonEmpty(f[2])}

\* three fields supplied, a start station among them, no end station
C26_Witness ==
    /\ LookupQueriedStore
    /\ srv.a = Request(C6E, PInt(215), Date1, DEL, Absent)
    /\ srv.query = {<<"flightLegState.carrier", C6E>>, <<"flightLegState.flightNumber", PInt(215)>>,
                    <<"flightLegState.dateOfOrigin", Date1>>, <<"flightLegState.startStation", DEL>>}

\* flight number zero, normalized from text, is a constraint
C26_WitnessZero ==
    /\ LookupQueriedStore
    /\ srv.a.flight_number = S(<<"0">>)
    /\ <<"flightLegState.flightNumber", PInt(0)>> \in srv.query

\* C28: a lookup given a non-empty flight_number issues a query that
\* constrains flightLegState.flightNumber.
C28_FlightNumberConstrained ==
    (LookupQueriedStore /\ NonEmpty(srv.a.flight_number))
    => \E c \in srv.query : c[1] = "flightLegState.flightNumber"

\* what does hold: the constraint is there whenever the flight number given
\* is a non-zero integer or the text of an integer
FlightNumberConstrainedWhenInteger ==
    (LookupQueriedStore /\ NonEmpty(srv.a.flight_number) /\ PyInt(srv.a.flight_number).ok
        /\ srv.a.flight_number # PInt(0))
    => \E c \in srv.query : c[1] = "flightLegState.flightNumber"

(***************************************************************************)
(* The plan validator alone: an oracle text, then plan_tools               *)
(***************************************************************************)
InitPlan ==
    /\ content \in OracleTexts
    /\ planOut = NotCalled
    /\ store = <<>>
    /\ srv = NoSrv
    /\ ClientIdle
    /\ NoRequests

PlanTools ==
    /\ pc = "idle"
    /\ ~planOut.called
    /\ planOut' = plan_tools(content)
    /\ UNCHANGED <<mongo_client, constructed, reqs, store, srv, content, pc, plan, idx, results, calls, summarized, ret>>

NextPlan == PlanTools

SpecPlan == InitPlan /\ [][NextPlan]_vars

\* the texts of JSON plan objects that hold no backtick
PlanBodies == {<<JsonCh(SamplePlan)>>}

Tags == {Text(<<"j", "s", "o", "n">>), Text(<<"J", "S", "O", "N">>), Text(<<"p", "y">>)}

OptNewline == {<<>>, <<Ch("\n")>>}

\* body in a fenced code block whose opening fence carries the tag (<<>> for none)
Fenced(tag, body) == {Fence \o tag \o w1 \o body \o w2 \o Fence : w1 \in OptNewline, w2 \in OptNewline}

\* C4: plan_tools never raises, and returns the empty plan when the oracle
\* text is empty, is not JSON after cleaning, or is JSON that is no mapping
\* with a plan key.
C4_EmptyPlanOnBadOutput ==
    planOut.called =>
        /\ ~planOut.raised
        /\ ( \/ content = <<>>
             \/ ~json_loads(CleanFences(content)).ok
             \/ json_loads(CleanFences(content)).val.kind # "dict"
             \/ json_loads(CleanFences(content)).val.planKind = "absent" )
           => planOut.val = EmptyPlan

\* a fenced text with no JSON in it went through plan_tools
C4_Witness ==
    /\ planOut.called
    /\ content = Fence \o Text(<<"j", "s", "o", "n">>) \o Text(<<"x">>) \o Fence
    /\ planOut.val = EmptyPlan

\* a JSON mapping without a plan key went through plan_tools
C4_WitnessNoPlanKey ==
    /\ planOut.called
    /\ content = <<JsonCh(DictJson)>>
    /\ planOut.val = EmptyPlan

\* C5: a valid JSON plan object in a fenced code block, whatever the language
\* tag after the opening fence, yields the plan of the unfenced text.
C5_FencedPlanAnyTag ==
    planOut.called =>
        \A body \in PlanBodies : \A tag \in Tags \cup {<<>>} :
            content \in Fenced(tag, body) => planOut.val = plan_tools(body).val

\* the part of C5 the code keeps: no tag, or the tag json in any letter case
C5_FencedPlanJsonTag ==
    planOut.called =>
        \A body \in PlanBodies : \A tag \in {Text(<<"j", "s", "o", "n">>), Text(<<"J", "S", "O", "N">>), <<>>} :
            content \in Fenced(tag, body) => planOut.val = plan_tools(body).val /\ planOut.val = SamplePlan

(***************************************************************************)
(* The client: an oracle text holding a plan, then run_query against a     *)
(* server whose collection holds flight 6E 215 on two routes               *)
(***************************************************************************)
ExecStore == <<[Leg("oid", DEL, BOM, 1) EXCEPT !.id = 1], [Leg("oid", BOM, GOI, 2) EXCEPT !.id = 2]>>

Args2(k1, v1, k2, v2) == [k \in {k1, k2} |-> IF k = k1 THEN v1 ELSE v2]

FlightArgs == [k \in {"carrier", "flight_number", "date_of_origin"} |->
                  CASE k = "carrier" -> C6E [] k = "flight_number" -> PInt(215) [] OTHER -> Date1]

Extend(args, more) == [k \in DOMAIN args \cup DOMAIN more |-> IF k \in DOMAIN more THEN more[k] ELSE args[k]]

\* the steps plans are drawn from
StepKinds == {
    \* the flight without stations: two routes match
    Step("get_delay_summary", FlightArgs),
    \* the flight from DEL, the end station given as " Unknown"
    Step("get_flight_basic_info",
         Extend(FlightArgs, Args2("startStation", DEL, "endStation", S(<<" ", "U", "n", "k", "n", "o", "w", "n">>)))),
    \* arguments that are the number 0 and the boolean false
    Step("get_equipment_info", Args2("flight_number", PInt(0), "endStation", PBool(FALSE))),
    \* raw filters with a limit above the range, below it, zero, and not a number
    Step("raw_mongodb_query", Args2("query_json", S(EmptyFilterText), "limit", PInt(100))),
    Step("raw_mongodb_query", Args2("query_json", S(EmptyFilterText), "limit", PInt(0 - 3))),
    Step("raw_mongodb_query", Args2("query_json", S(EmptyFilterText), "limit", PInt(0))),
    Step("raw_mongodb_query", Args2("query_json", S(EmptyFilterText), "limit", S(<<"t", "e", "n">>))),
    \* raw filters that are empty or missing
    Step("raw_mongodb_query", Args2("query_json", S(<<>>), "limit", PInt(5))),
    Step("raw_mongodb_query", NoArgs),
    \* a step whose arguments are null
    [shape |-> "dict", tool |-> "get_crew_info", argsOk |-> FALSE, args |-> NoArgs] }

Plans == UNION {[1..n -> StepKinds] : n \in 0..MaxSteps}

ExecTexts ==
    {<<JsonCh(PlanJson(p))>> : p \in Plans}
    \cup {Fence \o Text(<<"j", "s", "o", "n", "\n">>) \o <<JsonCh(PlanJson(p))>> \o Fence : p \in [1..1 -> StepKinds]}
    \cup {<<>>, Text(<<"x">>), <<JsonCh(DictJson)>>, <<JsonCh(OtherJson)>>,
          <<JsonCh(NullPlanJson)>>, <<JsonCh(TextPlanJson)>>}

InitExec ==
    /\ store = ExecStore
    /\ srv = NoSrv
    /\ content \in ExecTexts
    /\ planOut = NotCalled
    /\ pc = "start"
    /\ plan = <<>>
    /\ idx = 0
    /\ results = <<>>
    /\ calls = <<>>
    /\ summarized = FALSE
    /\ ret = NoRet
    /\ NoRequests

NextExec ==
    \/ RunQueryPlan
    \/ RunQueryStep
    \/ RunQuerySummarize

SpecExec == InitExec /\ [][NextExec]_vars

\* a success envelope whose data carries needs_route_selection = true
IsAmbiguous(resp) ==
    resp.kind = "dict" /\ resp.env.ok /\ resp.env.data.kind = "ambiguous"
    /\ resp.env.data.needs_route_selection

\* C1: once the response of step k is a success envelope carrying
\* needs_route_selection, run_query has returned: no later step is
\* dispatched, the summarizer is not called, and the returned value carries
\* needs_route_selection with the k results of steps 1..k, that one last.
C1_ShortCircuitOnAmbiguity ==
    \A k \in 1..Len(results) :
        (~results[k].rejected /\ IsAmbiguous(results[k].resp)) =>
            /\ pc = "done"
            /\ k = Len(results)
            /\ \A i \in 1..Len(calls) : calls[i].step <= k
            /\ calls[Len(calls)].step = k
            /\ ~summarized
            /\ ret.kind = "ambiguous"
            /\ ret.needs_route_selection
            /\ ret.results = results
            /\ Len(ret.results) = k
            /\ \A j \in 1..k : ret.results[j].tool = plan[j].tool

\* a plan of three steps whose second step was ambiguous has returned
C1_Witness ==
    /\ pc = "done"
    /\ Len(plan) = 3
    /\ Len(results) = 2
    /\ IsAmbiguous(results[2].resp)
    /\ ret.kind = "ambiguous"

\* C6: run_query on a plan with zero steps invokes no operation and does not
\* return an error outcome.
C6_EmptyPlanIsNotAnError ==
    (pc = "done" /\ planOut.called /\ ~planOut.raised
        /\ planOut.val.planKind = "list" /\ planOut.val.plan = <<>>)
    => (calls = <<>> /\ ret.kind # "error")

\* C7: when run_query returns after a step was executed, the returned value
\* holds the result of every step executed before that point.
C7_PartialResultsReturned ==
    (pc = "done" /\ calls # <<>>) =>
        /\ ret.kind \in {"ambiguous", "summary"}
        /\ \A i \in 1..Len(calls) : ret.results[calls[i].step] = results[calls[i].step]

\* the values C8 calls empty or "unknown"
EmptyOrUnknown(v) ==
    \/ v.ty = "none"
    \/ v.ty = "str" /\ (v.s = <<>> \/ lower(strip(v.s)) = Unknown)

\* the argument names C8 is about: all but the limit run_query sets on a raw query
Compared(tool, args) == DOMAIN args \ (IF tool = "raw_mongodb_query" THEN {"limit"} ELSE {})

\* C8: the arguments dispatched for a step are the step's arguments minus
\* those that are empty or "unknown"; every other one, 0 and false included,
\* is passed unchanged.
C8_OnlyEmptyOrUnknownDropped ==
    \A i \in 1..Len(calls) :
        LET c == calls[i]
            given == plan[c.step].args
        IN  /\ Compared(c.tool, c.args) = {k \in Compared(c.tool, given) : ~EmptyOrUnknown(given[k])}
            /\ \A k \in Compared(c.tool, c.args) : k \in DOMAIN given /\ c.args[k] = given[k]

\* a raw_mongodb_query step whose filter is missing, empty or "unknown"
NoFilter(step) ==
    /\ step.shape = "dict" /\ step.argsOk
    /\ step.tool = "raw_mongodb_query"
    /\ ("query_json" \in DOMAIN step.args =>
            ~Truthy(step.args["query_json"]) \/ EmptyOrUnknown(step.args["query_json"]))

\* C9: a raw_mongodb_query step without a filter is never dispatched, and a
\* rejection entry for it is recorded in the results.
C9_EmptyFilterRejected ==
    \A j \in 1..Len(plan) :
        NoFilter(plan[j]) =>
            /\ \A i \in 1..Len(calls) : calls[i].step # j
            /\ (j <= idx => (j <= Len(results) /\ results[j] = Rejection))

\* a filterless raw step was passed over after another step was dispatched
C9_Witness ==
    /\ Len(plan) >= 2
    /\ NoFilter(plan[2])
    /\ idx >= 2
    /\ results[2] = Rejection
    /\ Len(calls) = 1

\* the allowed range of a raw query's limit
RawLimitMin == 1

RawLimitMax == 50

\* C10: the limit dispatched for a raw_mongodb_query step is in 1..50.
C10_DispatchedLimitClamped ==
    \A i \in 1..Len(calls) :
        calls[i].tool = "raw_mongodb_query" =>
            /\ "limit" \in DOMAIN calls[i].args
            /\ calls[i].args["limit"].ty = "int"
            /\ calls[i].args["limit"].n >= RawLimitMin
            /\ calls[i].args["limit"].n <= RawLimitMax

(***************************************************************************)
(* The store handle: requests in flight on the one event loop, each        *)
(* calling get_mongodb_client before each of its two store calls           *)
(***************************************************************************)
\* get_mongodb_client without its test of _mongo_client
IsNoneUntested(c) == TRUE

\* _mongo_client is None
IsNone(c) == c = 0

\* the request has not started, holds the handle it was returned, or stopped
\* on the exception of the constructor
NewRequest == [pc |-> "call1", got |-> <<>>]

InitHandle ==
    /\ mongo_client = NoHandle
    /\ constructed = 0
    /\ reqs = [r \in 1..MaxReqs |-> NewRequest]
    /\ store = <<>>
    /\ srv = NoSrv
    /\ content = <<>>
    /\ planOut = NotCalled
    /\ ClientIdle

\* get_mongodb_client called by request r: the body holds no await, so it
\* runs from its first line to its return before any other request runs
GetMongodbClient(r) ==
    /\ reqs[r].pc \in {"call1", "call2"}
    /\ \E raises \in BOOLEAN :
           IF IsNone(mongo_client.client)
           THEN IF raises
                THEN /\ reqs' = [reqs EXCEPT ![r].pc = "raised"]
                     /\ UNCHANGED <<mongo_client, constructed>>
                ELSE /\ constructed' = constructed + 1
                     /\ mongo_client' = [client |-> constructed + 1, db |-> constructed + 1,
                                         col |-> constructed + 1]
                     /\ reqs' = [reqs EXCEPT ![r] = [pc |-> IF @.pc = "call1" THEN "await1" ELSE "await2",
                                                     got |-> Append(@.got, mongo_client')]]
           ELSE /\ reqs' = [reqs EXCEPT ![r] = [pc |-> IF @.pc = "call1" THEN "await1" ELSE "await2",
                                                got |-> Append(@.got, mongo_client)]]
                /\ UNCHANGED <<mongo_client, constructed>>
    /\ UNCHANGED <<store, srv, content, planOut, pc, plan, idx, results, calls, summarized, ret>>

\* the store call request r awaits completes, and r runs on
StoreCallReturns(r) ==
    /\ reqs[r].pc \in {"await1", "await2"}
    /\ reqs' = [reqs EXCEPT ![r].pc = IF @ = "await1" THEN "call2" ELSE "done"]
    /\ UNCHANGED <<mongo_client, constructed, store, srv, content, planOut, pc, plan, idx, results,
                   calls, summarized, ret>>

NextHandle == \E r \in 1..MaxReqs : GetMongodbClient(r) \/ StoreCallReturns(r)

SpecHandle == InitHandle /\ [][NextHandle]_vars

\* every handle any request was returned
HandlesReturned == UNION {{reqs[r].got[i] : i \in 1..Len(reqs[r].got)} : r \in 1..Len(reqs)}

\* C15: whatever the interleaving of the requests, AsyncIOMotorClient is
\* constructed at most once and every call of get_mongodb_client returns the
\* same client, database and collection.
C15_HandleCreatedOnce ==
    /\ constructed <= 1
    /\ Cardinality(HandlesReturned) <= 1
    /\ \A h \in HandlesReturned : h = mongo_client /\ h.client # 0

\* two requests are suspended in a store call at the same time, one of them
\* after its second call of get_mongodb_client, and a third has not started
C15_Witness ==
    /\ constructed = 1
    /\ \E r1, r2, r3 \in 1..Len(reqs) :
           /\ reqs[r1].pc = "await1"
           /\ reqs[r2].pc = "await2" /\ Len(reqs[r2].got) = 2
           /\ reqs[r3].pc = "call1"

(***************************************************************************)
(* server.py: run_aggregated_query                                         *)
(***************************************************************************)
\* query_type_map.get(t, t) for the lowered text t
QueryTypeAlias(t) ==
    CASE t = <<"a", "v", "g">> -> <<"a", "v", "e", "r", "a", "g", "e">>
      [] t = <<"m", "e", "a", "n">> -> <<"a", "v", "e", "r", "a", "g", "e">>
      [] t = <<"t", "o", "t", "a", "l">> -> <<"s", "u", "m">>
      [] t = <<"c", "n", "t">> -> <<"c", "o", "u", "n", "t">>
      [] t = <<"m", "i", "n", "i", "m", "u", "m">> -> <<"m", "i", "n">>
      [] t = <<"m", "a", "x", "i", "m", "u", "m">> -> <<"m", "a", "x">>
      [] OTHER -> t

\* the query types that aggregate the values of the field
ValueAggregates == {<<"a", "v", "e", "r", "a", "g", "e">>, <<"s", "u", "m">>, <<"m", "i", "n">>, <<"m", "a", "x">>}

\* the keys of agg_map
AggMapKeys == ValueAggregates \cup {<<"c", "o", "u", "n", "t">>}

\* val == 0
EqualsZero(val) == val.ty \in {"int", "bool"} /\ val.n = 0

\* the loop over the operators of a delays.total condition: the first
\* comparison with zero replaces the whole condition and ends the loop, the
\* operators before it are collected and kept only when none was replaced
RECURSIVE DelayConditions(_, _, _)
DelayConditions(items, i, new_conditions) ==
    IF i > Len(items)
    THEN IF new_conditions # <<>> THEN << PDict(new_conditions) >> ELSE <<>>
    ELSE IF items[i][1] = "$gt" /\ EqualsZero(items[i][2])
    THEN << PDict(<< <<"$nin", ZeroDelayExcluded>> >>) >>
    ELSE IF items[i][1] = "$eq" /\ EqualsZero(items[i][2])
    THEN << PDict(<< <<"$in", ZeroDelayIncluded>> >>) >>
    ELSE DelayConditions(items, i + 1, Append(new_conditions, items[i]))

\* what one item of the parsed filter puts into normalized_filter: the
\* values it sets for its key, none or one
NormalizedValues(key, value) ==
    IF MentionsFlightNumber(key) THEN <<value>>
    ELSE IF MentionsDelayTotal(key) /\ value.ty = "dict" THEN DelayConditions(value.d, 1, <<>>)
    ELSE <<value>>

\* normalized_filter, as the set of its items
NormalizedFilter(items) ==
    {<<items[i][1], NormalizedValues(items[i][1], items[i][2])[1]>> :
        i \in {k \in 1..Len(items) : NormalizedValues(items[k][1], items[k][2]) # <<>>}}

\* match_stage[key] = value
WithKey(match, key, value) == {c \in match : c[1] # key} \cup {<<key, value>>}

\* the filter_json block: ok = FALSE is an exception inside it
FilterStage(filter_json, parsed) ==
    IF ~Truthy(filter_json) THEN [ok |-> TRUE, match |-> {}]
    ELSE IF ~parsed.ok \/ parsed.val.ty # "dict" THEN [ok |-> FALSE, match |-> {}]
    ELSE [ok |-> TRUE, match |-> NormalizedFilter(parsed.val.d)]

\* the carrier and date range put over the filter
WithCarrier(match, carrier) ==
    IF Truthy(carrier) THEN WithKey(match, "flightLegState.carrier", carrier) ELSE match

WithDateRange(match, start_date, end_date) ==
    IF Truthy(start_date) /\ Truthy(end_date)
    THEN WithKey(match, "flightLegState.dateOfOrigin", PDict(<< <<"$gte", start_date>>, <<"$lte", end_date>> >>))
    ELSE match

\* the documents the $group stage with _id None yields: one for a match
\* stage that selects a document, none otherwise
GroupResults(st, match) == IF \E i \in 1..Len(st) : Matches(st[i], match) THEN 1 ELSE 0

\* run_aggregated_query from the pipeline on
Aggregated(st, match, fail) ==
    Outcome("run_aggregated_query", <<StoreCall("aggregate", match)>>,
            IF fail = "aggregate" THEN response_error(500)
            ELSE response_ok([kind |-> "aggregate", results |-> GroupResults(st, match)]))

\* run_aggregated_query from the filter block on
AggFiltered(st, kind, stage, carrier, start_date, end_date, fail) ==
    IF ~stage.ok THEN Outcome("run_aggregated_query", <<>>, response_error(400))
    ELSE IF kind \notin AggMapKeys THEN Outcome("run_aggregated_query", <<>>, response_error(400))
    ELSE Aggregated(st, WithDateRange(WithCarrier(stage.match, carrier), start_date, end_date), fail)

\* run_aggregated_query from the normalized query type on
AggTyped(st, kind, field, carrier, start_date, end_date, filter_json, fail) ==
    IF MentionsDelayTotal(field) /\ kind \in ValueAggregates
    THEN Outcome("run_aggregated_query", <<>>, response_error(400))
    ELSE AggFiltered(st, kind, FilterStage(filter_json, FilterLoads(strip(ReplaceSingleQuotes(filter_json.s)))),
                     carrier, start_date, end_date, fail)

\* run_aggregated_query; fail is the store call that raises: "none",
\* "handle" or "aggregate".  The handle is obtained outside every try.
run_aggregated_query(st, query_type, field, carrier, start_date, end_date, filter_json, fail) ==
    IF fail = "handle" THEN Escaped("run_aggregated_query", <<>>)
    ELSE AggTyped(st, QueryTypeAlias(lower(query_type.s)), field, carrier, start_date, end_date, filter_json, fail)

(***************************************************************************)
(* server.py: duration codec and get_total_delay_aggregated                *)
(***************************************************************************)
\* the decimal text of a natural number
RECURSIVE DecimalText(_)
DecimalText(n) == IF n < 10 THEN <<Digits[n + 1]>> ELSE DecimalText(n \div 10) \o <<Digits[(n % 10) + 1]>>

\* the length of the run of digits s begins with
RECURSIVE DigitRun(_)
DigitRun(s) == IF s # <<>> /\ IsDigit(s[1]) THEN 1 + DigitRun(Tail(s)) ELSE 0

\* the optional group, were it always skipped
OptGroupSkipped(s, n, unit) == [val |-> 0, rest |-> s]

\* one optional group (\d+)X of the pattern at the head of s: the number
\* and the rest of s behind the group, or 0 and s when the group is skipped
OptGroup(s, n, unit) ==
    IF n > 0 /\ Len(s) > n /\ s[n + 1] = unit
    THEN [val |-> DigitsValue(SubSeq(s, 1, n)), rest |-> SubSeq(s, n + 2, Len(s))]
    ELSE [val |-> 0, rest |-> s]

\* hours * 60 + minutes of the match of PT(?:(\d+)H)?(?:(\d+)M)?
IsoMinutes(hours, rest) == hours * 60 + OptGroup(rest, DigitRun(rest), "M").val

IsoGroups(h) == IsoMinutes(h.val, h.rest)

\* int(parts[0]) * 60 + int(parts[1]), 0 for the ValueError of either
ColonMinutes(hours, minutes) == IF hours.ok /\ minutes.ok THEN hours.n * 60 + minutes.n ELSE 0

\* the duration text once stripped, were a bare number read as minutes
StrippedMinutesBare(t) ==
    IF SepAt(t, ":") # {} THEN 0
    ELSE IF startswith(t, <<"P", "T">>)
    THEN IsoGroups(OptGroup(SubSeq(t, 3, Len(t)), DigitRun(SubSeq(t, 3, Len(t))), "H"))
    ELSE IF IntOfStr(t).ok THEN IntOfStr(t).n ELSE 0

\* the duration text once stripped
StrippedMinutes(t) ==
    IF SepAt(t, ":") # {}
    THEN IF Cardinality(SepAt(t, ":")) = 1
         THEN ColonMinutes(IntOfStr(SubSeq(t, 1, (CHOOSE i \in SepAt(t, ":") : TRUE) - 1)),
                           IntOfStr(SubSeq(t, (CHOOSE i \in SepAt(t, ":") : TRUE) + 1, Len(t))))
         ELSE 0
    ELSE IF startswith(t, <<"P", "T">>)
    THEN IsoGroups(OptGroup(SubSeq(t, 3, Len(t)), DigitRun(SubSeq(t, 3, Len(t))), "H"))
    ELSE 0

\* parse_iso_duration_to_minutes: 0 for an empty or missing text, and 0 for
\* the AttributeError of a value that is no text
parse_iso_duration_to_minutes(duration_str) ==
    IF ~Truthy(duration_str) THEN 0
    ELSE IF duration_str.ty # "str" THEN 0
    ELSE StrippedMinutes(strip(duration_str.s))

\* "N units" whatever N is
CountedPlural(n, unit) == DecimalText(n) \o <<" ">> \o unit \o <<"s">>

\* "N unit" or "N units"
Counted(n, unit) ==
    DecimalText(n) \o <<" ">> \o unit \o (IF n # 1 THEN <<"s">> ELSE <<>>)

\* " ".join(parts)
JoinParts(hours, minutes) ==
    (IF hours > 0 THEN Counted(hours, <<"h", "o", "u", "r">>) ELSE <<>>)
    \o (IF hours > 0 /\ minutes > 0 THEN <<" ">> ELSE <<>>)
    \o (IF minutes > 0 THEN Counted(minutes, <<"m", "i", "n", "u", "t", "e">>) ELSE <<>>)

format_minutes_to_readable(total_minutes) ==
    IF total_minutes = 0 THEN <<"N", "o", " ", "d", "e", "l", "a", "y">>
    ELSE JoinParts(total_minutes \div 60, total_minutes % 60)

\* fl.get("delays", {}).get("total", "PT0H0M")
DelayStr(doc) == IF doc.delay = PNone THEN S(<<"P", "T", "0", "H", "0", "M">>) ELSE doc.delay

\* the entry the loop appends to flight_legs for a document
FlightLeg(doc) ==
    [date |-> doc.dateOfOrigin, startStation |-> doc.startStation, endStation |-> doc.endStation,
     seqNumber |-> doc.seqNumber, delayRaw |-> DelayStr(doc),
     delayMinutes |-> parse_iso_duration_to_minutes(DelayStr(doc)), scheduledStartTime |-> doc.sched]

\* total_delay_minutes, were only the first leg counted
FirstDelayMinutes(cur) == IF cur = <<>> THEN 0 ELSE parse_iso_duration_to_minutes(DelayStr(cur[1]))

\* total_delay_minutes when the loop over the cursor ends
RECURSIVE TotalDelayMinutes(_)
TotalDelayMinutes(cur) ==
    IF cur = <<>> THEN 0
    ELSE TotalDelayMinutes(SubSeq(cur, 1, Len(cur) - 1)) + parse_iso_duration_to_minutes(DelayStr(cur[Len(cur)]))

\* whether document a sorts before b by (dateOfOrigin, seqNumber) ascending
LegBefore(a, b) ==
    \/ a.dateOfOrigin # b.dateOfOrigin /\ StrLeq(a.dateOfOrigin.s, b.dateOfOrigin.s)
    \/ a.dateOfOrigin = b.dateOfOrigin /\ a.seqNumber.n < b.seqNumber.n

\* the indices idxs of st in that order, equal keys in natural order
RECURSIVE SortLegs(_, _)
SortLegs(st, idxs) ==
    IF idxs = {} THEN <<>>
    ELSE <<st[CHOOSE i \in idxs : \A k \in idxs : LegBefore(st[i], st[k]) \/ (~LegBefore(st[k], st[i]) /\ i <= k)]>>
         \o SortLegs(st, idxs \ {CHOOSE i \in idxs :
                                    \A k \in idxs : LegBefore(st[i], st[k]) \/ (~LegBefore(st[k], st[i]) /\ i <= k)})

\* col.find(query, projection).sort([dateOfOrigin, seqNumber])
FindLegs(st, query) == SortLegs(st, {i \in 1..Len(st) : Matches(st[i], query)})

\* the result of get_total_delay_aggregated over the documents of the cursor
DelayResult(cur, total) ==
    response_ok([kind |-> "totalDelay",
                 totalDelayMinutes |-> total,
                 totalDelayReadable |-> format_minutes_to_readable(total),
                 numberOfLegs |-> Len(cur),
                 legs |-> [i \in 1..Len(cur) |-> FlightLeg(cur[i])],
                 datesProcessed |-> {cur[i].dateOfOrigin : i \in 1..Len(cur)}])

\* get_total_delay_aggregated from the cursor on, were an empty cursor
\* answered with a total of zero
DelayFoundZeroTotal(query, cur) ==
    Outcome("get_total_delay_aggregated", <<StoreCall("find", query)>>, DelayResult(cur, TotalDelayMinutes(cur)))

\* get_total_delay_aggregated from the cursor on
DelayFound(query, cur) ==
    Outcome("get_total_delay_aggregated", <<StoreCall("find", query)>>,
            IF cur = <<>> THEN response_error(404) ELSE DelayResult(cur, TotalDelayMinutes(cur)))

\* get_total_delay_aggregated from the composed query on; fail is the store
\* call that raises: "none", "handle" or "find"
DelayQueried(st, query, fail) ==
    IF fail = "handle" THEN Outcome("get_total_delay_aggregated", <<>>, response_error(500))
    ELSE IF fail = "find"
    THEN Outcome("get_total_delay_aggregated", <<StoreCall("find", query)>>, response_error(500))
    ELSE DelayFound(query, FindLegs(st, query))

\* the query over a date condition
DelayQuery(a, date) ==
    WithKey(make_query(a.carrier, FlightNumberOf(a), PNone, a.startStation, a.endStation),
            "flightLegState.dateOfOrigin", date)

\* the date range branch
DelayRange(st, a, sd, ed, fail) ==
    IF ~Truthy(sd) \/ ~Truthy(ed) THEN Outcome("get_total_delay_aggregated", <<>>, response_error(400))
    ELSE DelayQueried(st, DelayQuery(a, PDict(<< <<"$gte", sd>>, <<"$lte", ed>> >>)), fail)

\* the single date branch
DelaySingle(st, a, dob, fail) ==
    IF ~Truthy(dob) THEN Outcome("get_total_delay_aggregated", <<>>, response_error(400))
    ELSE DelayQueried(st, DelayQuery(a, dob), fail)

\* get_total_delay_aggregated, were a request without a date answered over
\* every date
get_total_delay_undated(st, a, fail) ==
    IF Truthy(a.start_date) /\ Truthy(a.end_date)
    THEN DelayRange(st, a, validate_date(a.start_date), validate_date(a.end_date), fail)
    ELSE IF Truthy(a.date_of_origin) THEN DelaySingle(st, a, validate_date(a.date_of_origin), fail)
    ELSE DelayQueried(st, make_query(a.carrier, FlightNumberOf(a), PNone, a.startStation, a.endStation), fail)

\* get_total_delay_aggregated: the range takes precedence over the single
\* date, and one of them is required
get_total_delay_aggregated(st, a, fail) ==
    IF Truthy(a.start_date) /\ Truthy(a.end_date)
    THEN DelayRange(st, a, validate_date(a.start_date), validate_date(a.end_date), fail)
    ELSE IF Truthy(a.date_of_origin) THEN DelaySingle(st, a, validate_date(a.date_of_origin), fail)
    ELSE Outcome("get_total_delay_aggregated", <<>>, response_error(400))

(***************************************************************************)
(* server.py: list_delayed_flights and get_aircraft_rotation               *)
(***************************************************************************)
\* the scheduledStartTime condition of list_delayed_flights; the times of
\* the records are numbered, and so are the times asked
DelayedTimes(start_time, end_time) ==
    IF Truthy(start_time) /\ Truthy(end_time)
    THEN QField("flightLegState.scheduledStartTime", PDict(<< <<"$gte", start_time>>, <<"$lte", end_time>> >>))
    ELSE IF Truthy(start_time)
    THEN QField("flightLegState.scheduledStartTime", PDict(<< <<"$gte", start_time>> >>))
    ELSE {}

\* the query of list_delayed_flights
DelayedQuery(start_time, end_time, carrier) ==
    QField("flightLegState.delays.total", PDict(<< <<"$nin", ZeroDelayExcluded>> >>))
    \cup DelayedTimes(start_time, end_time)
    \cup (IF Truthy(carrier) THEN QField("flightLegState.carrier", carrier) ELSE {})

\* list_delayed_flights from the query on: the listing is a success
\* whatever its length
DelayedListed(st, query, limit, fail) ==
    IF fail = "handle" THEN Outcome("list_delayed_flights", <<>>, response_error(500))
    ELSE IF fail = "find" THEN Outcome("list_delayed_flights", <<StoreCall("find", query)>>, response_error(500))
    ELSE Outcome("list_delayed_flights", <<StoreCall("find", query)>>,
                 response_ok([kind |-> "delayedFlights", count |-> CountFound(st, query, limit)]))

\* list_delayed_flights; fail is the store call that raises
list_delayed_flights(st, start_time, end_time, carrier, limit, fail) ==
    DelayedListed(st, DelayedQuery(start_time, end_time, carrier), limit, fail)

\* a request of get_aircraft_rotation
RotationRequest(carrier, flight_number, date_of_origin, aircraft_registration, startStation) ==
    [carrier |-> carrier, flight_number |-> flight_number, date_of_origin |-> date_of_origin,
     aircraft_registration |-> aircraft_registration, startStation |-> startStation, endStation |-> Absent]

\* "VTIVY" is read as "VT-IVY"
NormalizedTail(v) ==
    IF Truthy(v) /\ startswith(v.s, <<"V", "T">>) /\ SepAt(v.s, "-") = {}
    THEN S(<<"V", "T", "-">> \o SubSeq(v.s, 3, Len(v.s)))
    ELSE v

\* the query that locates the flight whose aircraft is asked for
TailQuery(a, dob) ==
    {<<"flightLegState.carrier", a.carrier>>,
     <<"flightLegState.flightNumber", normalize_flight_number(a.flight_number)>>,
     <<"flightLegState.dateOfOrigin", dob>>}
    \cup (IF Truthy(a.startStation) THEN QField("flightLegState.startStation", a.startStation) ELSE {})
    \cup (IF Truthy(a.endStation) THEN QField("flightLegState.endStation", a.endStation) ELSE {})

\* fallback_query
FallbackQuery(a, dob) ==
    {<<"flightLegState.carrier", a.carrier>>,
     <<"flightLegState.flightNumber", normalize_flight_number(a.flight_number)>>,
     <<"flightLegState.dateOfOrigin", dob>>}

\* the query of the sample find_one
SampleQuery(dob) ==
    {<<"flightLegState.dateOfOrigin", dob>>,
     <<"flightLegState.equipment.aircraftRegistration",
       PDict(<< <<"$exists", PBool(TRUE)>>, <<"$ne", PNone>> >>)>>}

\* col.find_one(query): the first matching document in natural order
FindOne(st, query) ==
    IF \E i \in 1..Len(st) : Matches(st[i], query)
    THEN st[CHOOSE i \in 1..Len(st) : Matches(st[i], query) /\ \A k \in 1..(i - 1) : ~Matches(st[k], query)]
    ELSE NoDoc

\* step 2 from the find on: inside the try
RotationFind(st, query, storeCalls, fail) ==
    IF fail = "find"
    THEN Outcome("get_aircraft_rotation", Append(storeCalls, StoreCall("find", query)), response_error(500))
    ELSE Outcome("get_aircraft_rotation", Append(storeCalls, StoreCall("find", query)),
                 IF \E i \in 1..Len(st) : Matches(st[i], query)
                 THEN response_ok([kind |-> "rotation",
                                   numberOfFlights |-> Cardinality({i \in 1..Len(st) : Matches(st[i], query)})])
                 ELSE response_error(404))

\* step 2: the rotation of the aircraft with this tail
Rotation(st, a, tail, dob, storeCalls, fail) ==
    IF ~Truthy(tail) THEN Outcome("get_aircraft_rotation", storeCalls, response_error(400))
    ELSE IF Truthy(a.date_of_origin) /\ ~Truthy(dob)
    THEN Outcome("get_aircraft_rotation", storeCalls, response_error(400))
    ELSE RotationFind(st, {<<"flightLegState.equipment.aircraftRegistration", tail>>,
                           <<"flightLegState.dateOfOrigin", dob>>}, storeCalls, fail)

\* step 1 once the flight is found: its tail, or the sample find_one and
\* a 404 when it carries none
TailFound(st, a, dob, query, tail, fail) ==
    IF ~Truthy(tail)
    THEN Outcome("get_aircraft_rotation", <<StoreCall("find_one", query), StoreCall("find_one", SampleQuery(dob))>>,
                 response_error(404))
    ELSE Rotation(st, a, tail, DateOf(a), <<StoreCall("find_one", query)>>, fail)

\* step 1 when no flight is found: the fallback find, then a 404
TailMissing(query, fallback, fail) ==
    IF fail = "find"
    THEN Escaped("get_aircraft_rotation", <<StoreCall("find_one", query), StoreCall("find", fallback)>>)
    ELSE Outcome("get_aircraft_rotation", <<StoreCall("find_one", query), StoreCall("find", fallback)>>,
                 response_error(404))

\* step 1 from its find_one on: outside every try
TailQueried(st, a, dob, query, fail) ==
    IF fail = "find_one" THEN Escaped("get_aircraft_rotation", <<StoreCall("find_one", query)>>)
    ELSE IF FindOne(st, query) = NoDoc THEN TailMissing(query, FallbackQuery(a, dob), fail)
    ELSE TailFound(st, a, dob, query, FindOne(st, query).tail, fail)

\* step 1: the flight number is given and the tail is not
TailLookup(st, a, dob, fail) ==
    IF ~Truthy(dob) THEN Outcome("get_aircraft_rotation", <<>>, response_error(400))
    ELSE TailQueried(st, a, dob, TailQuery(a, dob), fail)

\* get_aircraft_rotation from the normalized tail on
RotationNormalized(st, a, tail, fail) ==
    IF Truthy(a.flight_number) /\ ~Truthy(tail) THEN TailLookup(st, a, validate_date(a.date_of_origin), fail)
    ELSE Rotation(st, a, tail, DateOf(a), <<>>, fail)

\* get_aircraft_rotation; fail is the store call that raises: "none",
\* "handle", "find_one" or "find".  The handle is obtained outside every try.
get_aircraft_rotation(st, a, fail) ==
    IF fail = "handle" THEN Escaped("get_aircraft_rotation", <<>>)
    ELSE RotationNormalized(st, a, NormalizedTail(a.aircraft_registration), fail)

(***************************************************************************)
(* The filter and aggregation operations: a collection of legs with their  *)
(* delay texts and aircraft, then one operation on it                      *)
(***************************************************************************)
MaxLegs == 2

VTIFA == S(<<"V", "T", "-", "I", "F", "A">>)

\* a leg of flight 6E 215 with sequence number seq, delay text delay (None
\* when the record carries none) and aircraft tail
DelayedLeg(seq, delay, tail) ==
    [Leg("oid", DEL, BOM, seq) EXCEPT !.delay = delay, !.tail = tail]

\* the delay texts of the records: both encodings, both zero encodings,
\* a text in neither encoding, and no delay at all
DelayTexts == {
    S(<<"P", "T", "1", "H", "3", "M">>),
    S(<<"0", "0", ":", "4", "5">>),
    S(<<"P", "T", "0", "H", "0", "M">>),
    S(<<"l", "a", "t", "e">>),
    PNone }

OpsDocKinds ==
    {DelayedLeg(1, d, VTIFA) : d \in DelayTexts} \cup {DelayedLeg(2, S(<<"0", "0", ":", "4", "5">>), PNone)}

\* every collection of at most MaxLegs such legs
OpsStores ==
    UNION {{[i \in 1..n |-> [ks[i] EXCEPT !.id = i]] : ks \in [1..n -> OpsDocKinds]} : n \in 0..MaxLegs}

\* the filter texts a caller sends: the documents of JsonTexts, one of them
\* in single quotes and one with surrounding blanks, the empty mapping, a
\* list, and a text that is no JSON
FilterTexts ==
    {<<t>> : t \in JsonTexts} \cup
    {<<TextCarrierSingleQuoted>>, <<" ", TextWhere, " ">>, EmptyFilterText, <<"[", "]">>, <<"{">>}

InitOps ==
    /\ store \in OpsStores
    /\ srv = NoSrv
    /\ content = <<>>
    /\ planOut = NotCalled
    /\ ClientIdle
    /\ NoRequests

RawMongodbQuery ==
    /\ ServerIdle
    /\ \E text \in FilterTexts, limit \in {PInt(1), PInt(10), BadNumber}, f \in {"none", "handle", "find"} :
           srv' = [op |-> "raw_mongodb_query", filter |-> S(text), fail |-> f,
                   out |-> raw_mongodb_query(store, S(text), limit, f)]
    /\ UNCHANGED <<mongo_client, constructed, reqs, store, content, planOut, pc, plan, idx, results, calls, summarized, ret>>

\* the aggregations asked: a count, aliases, a type agg_map has not
AggQueryTypes == {S(<<"c", "o", "u", "n", "t">>), S(<<"A", "v", "g">>), S(<<"m", "e", "d", "i", "a", "n">>)}

AggFields == {"flightLegState.delays.total", "flightLegState.seqNumber"}

RunAggregatedQuery ==
    /\ ServerIdle
    /\ \E text \in FilterTexts \cup {<<>>}, qt \in AggQueryTypes, field \in AggFields,
          carrier \in {Absent, C6E}, date \in {Absent, Date1}, f \in {"none", "handle", "aggregate"} :
           srv' = [op |-> "run_aggregated_query", filter |-> S(text), fail |-> f,
                   out |-> run_aggregated_query(store, qt, field, carrier, date, date, S(text), f)]
    /\ UNCHANGED <<mongo_client, constructed, reqs, store, content, planOut, pc, plan, idx, results, calls, summarized, ret>>

\* a request of get_total_delay_aggregated
DelayRequest(carrier, flight_number, date_of_origin, start_date, end_date, startStation) ==
    [carrier |-> carrier, flight_number |-> flight_number, date_of_origin |-> date_of_origin,
     start_date |-> start_date, end_date |-> end_date, startStation |-> startStation, endStation |-> Absent]

Date2 == S(<<"2", "0", "2", "4", "-", "0", "6", "-", "2", "4">>)

\* the totals asked: the flight on its date, in another format, over a
\* range, from a station no leg leaves, on a day without legs, with a date
\* that is none, with either half of a range, with no date at all
DelayRequests == {
    DelayRequest(C6E, PInt(215), Date1, Absent, Absent, Absent),
    DelayRequest(C6E, S(<<"2", "1", "5">>), Date1DMY, Absent, Absent, DEL),
    DelayRequest(C6E, PInt(215), Absent, Date1, Date2, Absent),
    DelayRequest(C6E, PInt(215), Date1, Absent, Absent, GOI),
    DelayRequest(C6E, PInt(215), Date2, Absent, Absent, Absent),
    DelayRequest(C6E, PInt(215), BadDate, Absent, Absent, Absent),
    DelayRequest(C6E, PInt(215), Absent, Date1, BadDate, Absent),
    DelayRequest(C6E, PInt(215), Absent, Date1, Absent, Absent),
    DelayRequest(C6E, PInt(215), Absent, Absent, Date1, Absent),
    DelayRequest(C6E, PInt(215), Absent, Absent, Absent, Absent) }

GetTotalDelayAggregated ==
    /\ ServerIdle
    /\ \E a \in DelayRequests, f \in {"none", "handle", "find"} :
           srv' = [op |-> "get_total_delay_aggregated", a |-> a, fail |-> f,
                   out |-> get_total_delay_aggregated(store, a, f)]
    /\ UNCHANGED <<mongo_client, constructed, reqs, store, content, planOut, pc, plan, idx, results, calls, summarized, ret>>

ListDelayedFlights ==
    /\ ServerIdle
    /\ \E start_time \in {Absent, PInt(1), PInt(2)}, end_time \in {Absent, PInt(1)}, carrier \in {Absent, C6E},
          limit \in {1, 50}, f \in {"none", "handle", "find"} :
           srv' = [op |-> "list_delayed_flights", fail |-> f,
                   out |-> list_delayed_flights(store, start_time, end_time, carrier, limit, f)]
    /\ UNCHANGED <<mongo_client, constructed, reqs, store, content, planOut, pc, plan, idx, results, calls, summarized, ret>>

\* the rotations asked: by flight, by flight from a station it does not
\* leave, by flight with a date that is none, by tail in both spellings, by
\* a tail no record carries, by tail with a date that is none, by nothing
RotationRequests == {
    RotationRequest(C6E, PInt(215), Date1, Absent, Absent),
    RotationRequest(C6E, PInt(215), Date1, Absent, GOI),
    RotationRequest(C6E, PInt(215), BadDate, Absent, Absent),
    RotationRequest(C6E, Absent, Date1, VTIFA, Absent),
    RotationRequest(C6E, Absent, Date1, S(<<"V", "T", "I", "F", "A">>), Absent),
    RotationRequest(C6E, Absent, Date1, S(<<"V", "T", "-", "I", "F", "B">>), Absent),
    RotationRequest(C6E, Absent, BadDate, VTIFA, Absent),
    RotationRequest(Absent, Absent, Absent, Absent, Absent) }

GetAircraftRotation ==
    /\ ServerIdle
    /\ \E a \in RotationRequests, f \in {"none", "handle", "find_one", "find"} :
           srv' = [op |-> "get_aircraft_rotation", a |-> a, fail |-> f,
                   out |-> get_aircraft_rotation(store, a, f)]
    /\ UNCHANGED <<mongo_client, constructed, reqs, store, content, planOut, pc, plan, idx, results, calls, summarized, ret>>

NextOps ==
    \/ RawMongodbQuery
    \/ ListDelayedFlights
    \/ GetAircraftRotation
    \/ GetTotalDelayAggregated
    \/ RunAggregatedQuery

SpecOps == InitOps /\ [][NextOps]_vars

\* the filter text of the operation that ran parses to a mapping with a
\* top-level key that starts with "$"
SigilKeyFilter ==
    /\ safe_json_loads(srv.filter.s).ok
    /\ safe_json_loads(srv.filter.s).val.ty = "dict"
    /\ \E key \in KeysOf(safe_json_loads(srv.filter.s).val) : StartsWithSigil(key)

RECURSIVE HasForbiddenKey(_)
HasForbiddenKey(v) ==
    \/ /\ v.ty = "dict"
       /\ \E i \in 1..Len(v.d) : v.d[i][1] \in ForbiddenOps \/ HasForbiddenKey(v.d[i][2])
    \/ /\ v.ty = "list"
       /\ \E i \in 1..Len(v.d) : HasForbiddenKey(v.d[i])

\* the operation that ran takes a filter document of the caller
TakesCallerFilter == srv.op \in {"raw_mongodb_query", "run_aggregated_query"}

\* C13: on raw_mongodb_query and run_aggregated_query no filter that holds
\* $where, $out, $merge, $accumulator or $function as a key at any depth is
\* passed to the store.
C13_NoForbiddenOperatorReachesStore ==
    TakesCallerFilter
    => \A i \in 1..Len(srv.out.storeCalls) :
           \A c \in srv.out.storeCalls[i].filter : c[1] \notin ForbiddenOps /\ ~HasForbiddenKey(c[2])

\* what does hold: raw_mongodb_query passes no filter with a forbidden
\* operator as a top-level key
RawTopLevelOperatorsGuarded ==
    srv.op = "raw_mongodb_query"
    => \A i \in 1..Len(srv.out.storeCalls) :
           \A c \in srv.out.storeCalls[i].filter : c[1] \notin ForbiddenOps

\* the caller's filter document, None when the text holds no mapping
CallerFilter ==
    IF safe_json_loads(srv.filter.s).ok /\ safe_json_loads(srv.filter.s).val.ty = "dict"
    THEN safe_json_loads(srv.filter.s).val
    ELSE PNone

\* the caller's filter compares the delay total with zero by $gt or $eq
ComparesDelayWithZero ==
    /\ CallerFilter # PNone
    /\ \E i \in 1..Len(CallerFilter.d) :
           /\ CallerFilter.d[i][1] = "flightLegState.delays.total"
           /\ CallerFilter.d[i][2].ty = "dict"
           /\ \E k \in 1..Len(CallerFilter.d[i][2].d) :
                  CallerFilter.d[i][2].d[k][1] \in {"$gt", "$eq"} /\ CallerFilter.d[i][2].d[k][2] = PInt(0)

\* no operator condition of filter q compares the delay total with the
\* number zero
NoNumericZero(q) ==
    \A c \in q :
        (c[1] = "flightLegState.delays.total" /\ c[2].ty = "dict")
        => \A k \in 1..Len(c[2].d) : c[2].d[k][2] # PInt(0)

\* C14: when the caller's filter compares the delay total numerically with
\* zero, raw_mongodb_query and run_aggregated_query pass the store a filter
\* in which that comparison is rewritten to $nin or $in over the zero-delay
\* encodings, never the numeric comparison itself.
C14_ZeroComparisonRewritten ==
    (TakesCallerFilter /\ ComparesDelayWithZero)
    => \A i \in 1..Len(srv.out.storeCalls) : NoNumericZero(srv.out.storeCalls[i].filter)

\* what does hold: on the aggregation path $gt 0 and $eq 0 reach the store
\* as $nin and $in over the zero-delay encodings, and the items of the
\* filter under other keys reach it unchanged
AggregationRewritesZeroComparison ==
    (srv.op = "run_aggregated_query" /\ ComparesDelayWithZero /\ srv.out.storeCalls # <<>>)
    => /\ NoNumericZero(srv.out.storeCalls[1].filter)
       /\ \E c \in srv.out.storeCalls[1].filter :
              /\ c[1] = "flightLegState.delays.total"
              /\ c[2] \in {PDict(<< <<"$nin", ZeroDelayExcluded>> >>), PDict(<< <<"$in", ZeroDelayIncluded>> >>)}

\* the aggregation path drops the operators that accompany a rewritten
\* comparison under the same key: this formula is violated
AggregationKeepsAccompanyingOperators ==
    (srv.op = "run_aggregated_query" /\ srv.filter = S(<<TextDelayNeGt0>>) /\ srv.out.storeCalls # <<>>)
    => \E c \in srv.out.storeCalls[1].filter :
           /\ c[1] = "flightLegState.delays.total"
           /\ \E k \in 1..Len(c[2].d) : c[2].d[k][1] = "$ne"

\* get_total_delay_aggregated ran its find to the end
DelayLegsEnumerated ==
    /\ srv.op = "get_total_delay_aggregated"
    /\ srv.fail = "none"
    /\ srv.out.storeCalls # <<>>

\* the legs of the collection that match the query the operation issued
MatchingLegs == {i \in 1..Len(store) : Matches(store[i], srv.out.storeCalls[1].filter)}

\* C19: get_total_delay_aggregated answers 404 when no leg matches its
\* query and with a success envelope, whose total may be zero, when at
\* least one leg matches.
C19_NotFoundIffNoLegs ==
    DelayLegsEnumerated
    => /\ MatchingLegs = {} => srv.out.resp = response_error(404)
       /\ MatchingLegs # {} => (srv.out.resp.ok /\ srv.out.resp.data.numberOfLegs = Cardinality(MatchingLegs))

\* legs match and their delays add up to zero: a success, not a 404
C19_Witness ==
    /\ DelayLegsEnumerated
    /\ Cardinality(MatchingLegs) = 2
    /\ srv.out.resp.ok
    /\ srv.out.resp.data.totalDelayMinutes = 0

\* the collection holds legs, none of them on the day asked: a 404
C19_WitnessNoLegs ==
    /\ DelayLegsEnumerated
    /\ Len(store) = 2
    /\ MatchingLegs = {}
    /\ srv.out.resp = response_error(404)

\* the sum of the minutes of the raw delay texts of legs
RECURSIVE SumOfRawDelays(_)
SumOfRawDelays(legs) ==
    IF legs = <<>> THEN 0
    ELSE parse_iso_duration_to_minutes(legs[1].delayRaw) + SumOfRawDelays(Tail(legs))

OneHour48Minutes ==
    <<"1", " ", "h", "o", "u", "r", " ", "4", "8", " ", "m", "i", "n", "u", "t", "e", "s">>

\* the legs "PT1H3M" and "00:45" of the example
ExampleLegs(legs) ==
    /\ Len(legs) = 2
    /\ legs[1].delayRaw = S(<<"P", "T", "1", "H", "3", "M">>)
    /\ legs[2].delayRaw = S(<<"0", "0", ":", "4", "5">>)

\* C20: in a successful get_total_delay_aggregated result the total is the
\* sum of the minutes of each leg's raw delay text, numberOfLegs is the
\* number of legs, the readable text renders the total, the legs are the
\* matching records, and the legs "PT1H3M" and "00:45" give 108 and
\* "1 hour 48 minutes".
C20_TotalIsSumOfLegDelays ==
    (srv.op = "get_total_delay_aggregated" /\ srv.out.resp.ok)
    => LET data == srv.out.resp.data
       IN  /\ data.totalDelayMinutes = SumOfRawDelays(data.legs)
           /\ data.numberOfLegs = Len(data.legs)
           /\ data.totalDelayReadable = format_minutes_to_readable(data.totalDelayMinutes)
           /\ Len(data.legs) = Cardinality(MatchingLegs)
           /\ \A k \in 1..Len(data.legs) :
                  \E i \in MatchingLegs :
                      /\ store[i].seqNumber = data.legs[k].seqNumber
                      /\ data.legs[k].delayRaw \in {store[i].delay, S(<<"P", "T", "0", "H", "0", "M">>)}
           /\ ExampleLegs(data.legs)
                  => (data.totalDelayMinutes = 108 /\ data.totalDelayReadable = OneHour48Minutes)

C20_Witness ==
    /\ srv.op = "get_total_delay_aggregated"
    /\ srv.out.resp.ok
    /\ ExampleLegs(srv.out.resp.data.legs)
    /\ srv.out.resp.data.totalDelayMinutes = 108
    /\ srv.out.resp.data.totalDelayReadable = OneHour48Minutes
    /\ srv.out.resp.data.numberOfLegs = 2

\* the operations of this specification
FilterOperations ==
    {"raw_mongodb_query", "run_aggregated_query", "get_total_delay_aggregated", "list_delayed_flights",
     "get_aircraft_rotation"}

\* C16: no exception a store call raises leaves the operation: whichever
\* call fails (handle acquisition, find_one, find, aggregate), the operation
\* returns an error envelope.
C16_StoreExceptionsCaught ==
    (srv.op \in FilterOperations /\ srv.fail # "none")
    => ~srv.out.escaped

\* what does hold: the three operations that obtain the handle inside their
\* try answer every store failure with the 500 envelope
StoreExceptionsCaughtInsideTry ==
    (srv.op \in {"raw_mongodb_query", "get_total_delay_aggregated", "list_delayed_flights"}
        /\ srv.fail # "none")
    => (~srv.out.escaped /\ (srv.out.resp.ok \/ srv.out.resp.code \in {400, 500}))

\* the last store call of the operation that ran selected no record, with
\* a filter of field conditions only
NoRecordMatched ==
    /\ srv.op \in FilterOperations
    /\ srv.fail = "none"
    /\ srv.out.storeCalls # <<>>
    /\ LET last == srv.out.storeCalls[Len(srv.out.storeCalls)].filter
       IN  /\ \A c \in last : ~StartsWithSigil(c[1]) /\ ~HasForbiddenKey(c[2])
           /\ \A i \in 1..Len(store) : ~Matches(store[i], last)

\* C18: an operation whose store query selects no record returns the 404
\* envelope, never a success envelope with an empty payload.
C18_NoRecordsIsNotFound ==
    NoRecordMatched => srv.out.resp = response_error(404)

\* what does hold: raw_mongodb_query, get_total_delay_aggregated and
\* get_aircraft_rotation answer 404 when no record is selected
NoRecordsIsNotFoundWhereTested ==
    (NoRecordMatched /\ srv.op \in {"raw_mongodb_query", "get_total_delay_aggregated", "get_aircraft_rotation"})
    => srv.out.resp = response_error(404)

\* the request names no single date and no complete range
NoDateConstraint ==
    /\ srv.op = "get_total_delay_aggregated"
    /\ ~Truthy(srv.a.date_of_origin)
    /\ ~Truthy(srv.a.start_date) \/ ~Truthy(srv.a.end_date)

\* C21: get_total_delay_aggregated without a single date and without a
\* complete date range returns the 400 envelope and issues no store call,
\* whether or not the store would answer.
C21_MissingDateRejected ==
    NoDateConstraint => (srv.out.resp = response_error(400) /\ srv.out.storeCalls = <<>>)

C21_Witness ==
    /\ NoDateConstraint
    /\ Truthy(srv.a.end_date)
    /\ srv.fail = "handle"
    /\ Len(store) > 0
    /\ srv.out.resp = response_error(400)
    /\ srv.out.storeCalls = <<>>

(***************************************************************************)
(* The duration codec alone: a delay text or a minute count, then the      *)
(* function applied to it                                                  *)
(***************************************************************************)
MaxMinutes == 125

\* the designator rendering PT<h>H<min>M of a minute count
RenderDesignator(m) ==
    <<"P", "T">> \o DecimalText(m \div 60) \o <<"H">> \o DecimalText(m % 60) \o <<"M">>

\* the colon rendering <h>:<min> of a minute count, and the same with both
\* parts of two digits
RenderColon(m) == DecimalText(m \div 60) \o <<":">> \o DecimalText(m % 60)

RenderColonPadded(m) == Pad2(m \div 60) \o <<":">> \o Pad2(m % 60)

\* delay texts in neither rendering: blanks around a rendering, parts that
\* are no numbers, more or fewer parts, a sign, half a designator, other
\* prefixes
OddDelayTexts == {
    <<>>,
    <<" ">>,
    <<" ", "P", "T", "1", "H", "3", "M">>,
    <<"P", "T", "4", "5", "M", " ">>,
    <<"P", "T", "2", "H">>,
    <<"P", "T">>,
    <<"P", "T", "x">>,
    <<"P", "T", "3", "M", "2", "H">>,
    <<"p", "t", "1", "h">>,
    <<"P", "1", "D">>,
    <<"l", "a", "t", "e">>,
    <<"4", "5">>,
    <<":">>,
    <<"1", ":", "3", "0", ":", "0", "0">>,
    <<"a", ":", "b">>,
    <<"1", ":">>,
    <<" ", "1", " ", ":", " ", "3", "0", " ">>,
    <<"-", "1", ":", "3", "0">>,
    <<"0", ":", "-", "5">>,
    <<"P", "T", ":", "5">> }

\* the values a delay total holds
DelayValues ==
    {S(RenderDesignator(m)) : m \in 0..MaxMinutes}
    \cup {S(RenderColon(m)) : m \in 0..MaxMinutes}
    \cup {S(RenderColonPadded(m)) : m \in 0..MaxMinutes}
    \cup {S(t) : t \in OddDelayTexts}
    \cup {PNone, PInt(0), PInt(45)}

CodecInput(arg) == [op |-> "input", arg |-> arg]

InitCodec ==
    /\ srv \in {CodecInput(v) : v \in DelayValues} \cup {CodecInput(PInt(m)) : m \in 0..MaxMinutes}
    /\ store = <<>>
    /\ content = <<>>
    /\ planOut = NotCalled
    /\ ClientIdle
    /\ NoRequests

ParseIsoDurationToMinutes ==
    /\ srv.op = "input"
    /\ srv.arg \in DelayValues
    /\ srv' = [op |-> "parse_iso_duration_to_minutes", arg |-> srv.arg,
               out |-> parse_iso_duration_to_minutes(srv.arg)]
    /\ UNCHANGED <<mongo_client, constructed, reqs, store, content, planOut, pc, plan, idx, results, calls, summarized, ret>>

FormatMinutesToReadable ==
    /\ srv.op = "input"
    /\ srv.arg.ty = "int"
    /\ srv' = [op |-> "format_minutes_to_readable", arg |-> srv.arg,
               out |-> format_minutes_to_readable(srv.arg.n)]
    /\ UNCHANGED <<mongo_client, constructed, reqs, store, content, planOut, pc, plan, idx, results, calls, summarized, ret>>

NextCodec ==
    \/ ParseIsoDurationToMinutes
    \/ FormatMinutesToReadable

SpecCodec == InitCodec /\ [][NextCodec]_vars

\* parse_iso_duration_to_minutes was applied to a text
Parsed == srv.op = "parse_iso_duration_to_minutes" /\ srv.arg.ty = "str"

\* C22: parse_iso_duration_to_minutes of the designator rendering of m and
\* of the colon rendering of m, with or without leading zeros, is m.
C22_DurationRoundTrip ==
    Parsed
    => \A m \in 0..MaxMinutes :
           srv.arg.s \in {RenderDesignator(m), RenderColon(m), RenderColonPadded(m)} => srv.out = m

C22_Witness ==
    /\ Parsed
    /\ srv.arg.s = <<"P", "T", "2", "H", "5", "M">>
    /\ srv.out = 125

C22_WitnessColon ==
    /\ Parsed
    /\ srv.arg.s = <<"0", "1", ":", "0", "7">>
    /\ srv.out = 67

\* the zero-delay sentinels: "PT0H0M", "00:00", "" and an absent value
ZeroDelaySentinels == {S(<<"P", "T", "0", "H", "0", "M">>), S(<<"0", "0", ":", "0", "0">>), S(<<>>), PNone}

\* the number of colon-delimited parts of a text
ColonParts(t) == Cardinality(SepAt(t, ":")) + 1

\* C23 as stated: parse_iso_duration_to_minutes returns 0 for every
\* zero-delay sentinel, for every text with a colon and other than two
\* colon-delimited parts, and for every text without a colon that does not
\* begin with "PT".
C23_LenientZero ==
    srv.op = "parse_iso_duration_to_minutes"
    => /\ srv.arg \in ZeroDelaySentinels => srv.out = 0
       /\ (srv.arg.ty = "str" /\ ColonParts(srv.arg.s) > 2) => srv.out = 0
       /\ (srv.arg.ty = "str" /\ ColonParts(srv.arg.s) = 1 /\ ~startswith(srv.arg.s, <<"P", "T">>))
              => srv.out = 0

\* C23: parse_iso_duration_to_minutes returns a number for every value, and
\* 0 for every zero-delay sentinel, for every value that is no text, for
\* every text with a colon and other than two colon-delimited parts, and
\* for every text without a colon that, once its surrounding whitespace is
\* trimmed, does not begin with "PT".
C23_LenientZeroOnceTrimmed ==
    srv.op = "parse_iso_duration_to_minutes"
    => /\ srv.out \in Int
       /\ srv.arg \in ZeroDelaySentinels => srv.out = 0
       /\ srv.arg.ty # "str" => srv.out = 0
       /\ (srv.arg.ty = "str" /\ ColonParts(srv.arg.s) > 2) => srv.out = 0
       /\ (srv.arg.ty = "str" /\ ColonParts(srv.arg.s) = 1 /\ ~startswith(strip(srv.arg.s), <<"P", "T">>))
              => srv.out = 0

C23_Witness ==
    /\ srv.op = "parse_iso_duration_to_minutes"
    /\ srv.arg = S(<<"1", ":", "3", "0", ":", "0", "0">>)
    /\ srv.out = 0

\* a text in neither encoding and with no colon
C23_WitnessNoPrefix ==
    /\ srv.op = "parse_iso_duration_to_minutes"
    /\ srv.arg = S(<<"4", "5">>)
    /\ srv.out = 0

\* the wording of one component: its number, then the unit in the singular
\* for 1 and in the plural otherwise
Wording(n, singular, plural) == DecimalText(n) \o <<" ">> \o (IF n = 1 THEN singular ELSE plural)

Hours(h) == Wording(h, <<"h", "o", "u", "r">>, <<"h", "o", "u", "r", "s">>)

Minutes(r) == Wording(r, <<"m", "i", "n", "u", "t", "e">>, <<"m", "i", "n", "u", "t", "e", "s">>)

\* the non-zero components of h hours and r minutes, hours first
Components(h, r) ==
    IF h > 0 /\ r > 0 THEN Hours(h) \o <<" ">> \o Minutes(r)
    ELSE IF h > 0 THEN Hours(h)
    ELSE Minutes(r)

\* C24: format_minutes_to_readable renders 0 as "No delay" and every m > 0
\* as the non-zero components of m div 60 hours and m mod 60 minutes, hours
\* first, each unit singular for 1 and plural otherwise.
C24_ReadableComponents ==
    srv.op = "format_minutes_to_readable"
    => /\ srv.arg.n = 0 => srv.out = <<"N", "o", " ", "d", "e", "l", "a", "y">>
       /\ srv.arg.n > 0 => srv.out = Components(srv.arg.n \div 60, srv.arg.n % 60)
       /\ srv.arg.n = 1 => srv.out = <<"1", " ", "m", "i", "n", "u", "t", "e">>
       /\ srv.arg.n = 60 => srv.out = <<"1", " ", "h", "o", "u", "r">>
       /\ srv.arg.n = 61 => srv.out = <<"1", " ", "h", "o", "u", "r", " ", "1", " ", "m", "i", "n", "u", "t", "e">>
       /\ srv.arg.n = 120 => srv.out = <<"2", " ", "h", "o", "u", "r", "s">>
       /\ srv.arg.n = 125
              => srv.out = <<"2", " ", "h", "o", "u", "r", "s", " ", "5", " ", "m", "i", "n", "u", "t", "e", "s">>

C24_Witness ==
    /\ srv.op = "format_minutes_to_readable"
    /\ srv.arg.n = 61
    /\ srv.out = <<"1", " ", "h", "o", "u", "r", " ", "1", " ", "m", "i", "n", "u", "t", "e">>

\* C30: parse_iso_duration_to_minutes never returns a negative number.
C30_NeverNegative ==
    srv.op = "parse_iso_duration_to_minutes" => srv.out >= 0

\* what does hold: the result is negative only for a colon form with a
\* minus sign in one of its parts
NegativeOnlyWhenSigned ==
    (srv.op = "parse_iso_duration_to_minutes" /\ srv.out < 0)
    => (srv.arg.ty = "str" /\ ColonParts(srv.arg.s) = 2 /\ SepAt(srv.arg.s, "-") # {})

(***************************************************************************)
(* The candidate resolver alone, on a collection of records of flight      *)
(* 6E 215 that repeat one route at the earliest time                       *)
(***************************************************************************)
MaxRecords == 5

\* collections of at most MaxRecords records: the route DEL-BOM at time 1,
\* any number of times, and the route DEL-GOI at time 2
RepeatedStores ==
    UNION {{[i \in 1..n |-> [ks[i] EXCEPT !.id = i]] :
               ks \in [1..n -> {Leg("oid", DEL, BOM, 1), Leg("oid", DEL, GOI, 2)}]} : n \in 0..MaxRecords}

InitResolver ==
    /\ store \in RepeatedStores
    /\ srv = NoSrv
    /\ content = <<>>
    /\ planOut = NotCalled
    /\ ClientIdle
    /\ NoRequests

\* the resolver called for the flight without stations, with a limit of
\* two or more, so that one candidate means one flight key seen
ResolveCandidates ==
    /\ ServerIdle
    /\ \E limit \in 2..MaxLimit, fails \in BOOLEAN :
           srv' = [op |-> "find_matching_doc_meta",
                   query |-> LookupQuery(Request(C6E, PInt(215), Date1, Absent, Absent)), limit |-> limit,
                   fail |-> IF fails THEN "meta" ELSE "none",
                   meta |-> find_matching_doc_meta(store,
                                LookupQuery(Request(C6E, PInt(215), Date1, Absent, Absent)), limit, fails)]
    /\ UNCHANGED <<mongo_client, constructed, reqs, store, content, planOut, pc, plan, idx, results, calls, summarized, ret>>

NextResolver ==
    \/ ResolveCandidates

SpecResolver == InitResolver /\ [][NextResolver]_vars

\* the flight keys of the records that match the query of the resolver
MatchingKeys == {FlightKey(store[i]) : i \in {k \in 1..Len(store) : Matches(store[k], srv.query)}}

\* C27: when the matching records carry two or more distinct flight keys,
\* the resolver never yields the single candidate a lookup resolves to one
\* record, however many records repeat the key with the earliest time.
C27_DistinctKeysNeverResolved ==
    (srv.op = "find_matching_doc_meta" /\ ~srv.meta.error /\ srv.limit >= 2 /\ Cardinality(MatchingKeys) >= 2)
    => srv.meta.count # 1

\* what does hold: the same when the matching records are no more than the
\* fetch cap of twice the limit
DistinctKeysSeenWithinCap ==
    (srv.op = "find_matching_doc_meta" /\ ~srv.meta.error /\ srv.limit >= 2 /\ Cardinality(MatchingKeys) >= 2
        /\ Cardinality({k \in 1..Len(store) : Matches(store[k], srv.query)}) <= 2 * srv.limit)
    => srv.meta.count = 2

\* the conditions the two rewrites of run_aggregated_query put on the delay
\* total for 'greater than zero' and for 'equals zero'
GreaterThanZeroRewritten == DelayConditions(<< <<"$gt", PInt(0)>> >>, 1, <<>>)[1]

EqualsZeroRewritten == DelayConditions(<< <<"$eq", PInt(0)>> >>, 1, <<>>)[1]

\* run_aggregated_query passed the store one of the two rewritten conditions
DelayRewriteIssued ==
    /\ srv.op = "run_aggregated_query"
    /\ srv.out.storeCalls # <<>>
    /\ \E c \in srv.out.storeCalls[1].filter :
           /\ c[1] = "flightLegState.delays.total"
           /\ c[2] \in {GreaterThanZeroRewritten, EqualsZeroRewritten}

\* C29: every stored delay total, a missing one included, satisfies exactly
\* one of the rewritten 'greater than zero' condition and the rewritten
\* 'equals zero' condition.
C29_RewritesComplementary ==
    DelayRewriteIssued
    => \A i \in 1..Len(store) :
           MatchCond(FieldOf(store[i], "flightLegState.delays.total"), GreaterThanZeroRewritten)
               # MatchCond(FieldOf(store[i], "flightLegState.delays.total"), EqualsZeroRewritten)

\* what does hold: no stored delay total satisfies both conditions, and
\* every delay total that is a text of one character or more satisfies one
RewritesDisjoint ==
    DelayRewriteIssued
    => \A i \in 1..Len(store) :
           /\ ~(/\ MatchCond(FieldOf(store[i], "flightLegState.delays.total"), GreaterThanZeroRewritten)
                /\ MatchCond(FieldOf(store[i], "flightLegState.delays.total"), EqualsZeroRewritten))
           /\ Truthy(store[i].delay)
                  => (\/ MatchCond(FieldOf(store[i], "flightLegState.delays.total"), GreaterThanZeroRewritten)
                      \/ MatchCond(FieldOf(store[i], "flightLegState.delays.total"), EqualsZeroRewritten))

====
